---- MODULE Spec2Model ----
(***************************************************************************)
(* Faculty appraisal lifecycle: the appraisal handlers                     *)
(* (handlers/appraisal.handler), their routes and the FacultyAppraisal     *)
(* schema, as a state machine over the document store.                     *)
(*                                                                         *)
(* A stored appraisal is [id, userId, appraisalYear, role, designation,    *)
(* doc]; doc maps a schema path (a tuple of keys, <<"partB", "papers",     *)
(* "sci", "verified">>) to the value the store holds for it.  A path the   *)
(* store does not hold reads as its schema default (Get).                  *)
(***************************************************************************)
EXTENDS Integers, Sequences, FiniteSets, TLC

VARIABLES
    appraisals,   \* the FacultyAppraisal collection, in insertion order
    users,        \* the User collection: userId -> the user's fields
    teams,        \* the VerificationTeam collection, in insertion order
    year,         \* new Date().getFullYear()
    nextId,       \* the _id the next created document gets
    reqs          \* the requests in flight: where each one is in its handler, what
                  \* it read, and its answer once it has one

vars == <<appraisals, users, teams, year, nextId, reqs>>

----------------------------------------------------------------------------
\* Bounds of the model

\* number of appraisal documents created in the course of one year
MaxCreates == 1

\* the last year the clock reaches, the first being 1
MaxYear == 2

\* the largest number of verifiers a committee request lists
MaxVerifiers == 2

\* the largest marks value a request body carries
MaxMark == 1

\* number of requests that may be in flight together
MaxRequests == 2

\* the largest roster a committee is rebuilt over when rosters of every
\* size are walked
MaxRoster == 5

\* the largest committee those rebuilds list
MaxCommittee == 3

----------------------------------------------------------------------------
\* Constants of the program

ROLE == {"associate_dean", "director", "hod", "dean", "admin", "faculty"}

APPRAISAL_STATUS == {"DRAFT", "SUBMITTED", "VERIFIED", "APPROVED"}

ACADEMIC_CADRES == {"Professor", "Associate Professor", "Assistant Professor"}

\* HttpStatus codes used by sendSuccess / sendError
OK == 200
CREATED == 201
BAD_REQUEST == 400
FORBIDDEN == 403
NOT_FOUND == 404
CONFLICT == 409
INTERNAL_SERVER_ERROR == 500

\* authMiddleware(...roles) of the routes that are role-gated
EvaluatorMarkRoles == {"director", "dean", "associate_dean", "hod"}
VerifyRoles == {"director", "dean", "associate_dean", "hod"}
ApproveRoles == {"director", "dean"}

\* verifyAppraisal: the Part B categories whose metrics are walked
B_CATEGORIES == <<"papers", "conferences", "bookChapters", "books", "citations",
                  "copyrights", "patents", "grants", "products", "startup",
                  "awards", "industryInteraction">>

\* verifyAppraisal: the single-metric Part B categories
B_SINGLE == <<"revenueTraining", "placement">>

----------------------------------------------------------------------------
\* The FacultyAppraisal schema

\* the leaves of one verifiedMark
verifiedMark == {"count", "proof", "claimed", "verified"}

\* the metrics of each multi-metric Part B category
PartBMetrics(category) ==
    CASE category = "papers" -> {"sci", "esci", "scopus", "ugc", "other"}
      [] category = "conferences" -> {"scopus", "other"}
      [] category = "bookChapters" -> {"scopus", "other"}
      [] category = "books" -> {"intlIndexed", "intlNational", "local"}
      [] category = "citations" -> {"wos", "scopus", "googleScholar"}
      [] category = "copyrights" -> {"individualRegistered", "individualGranted",
                                     "instituteRegistered", "instituteGranted"}
      [] category = "patents" -> {"individualRegistered", "individualPublished",
                                  "individualGranted", "individualCommercialized",
                                  "instituteRegistered", "institutePublished",
                                  "instituteGranted", "instituteCommercialized"}
      [] category = "grants" -> {"research", "nonResearch"}
      [] category = "products" -> {"commercialized", "developed", "poc"}
      [] category = "startup" -> {"revenue", "funding", "product", "poc", "registered"}
      [] category = "awards" -> {"international", "government", "national",
                                 "intlFellowship", "nationalFellowship"}
      [] category = "industryInteraction" -> {"activeMou", "collaboration"}
      [] OTHER -> {}

Range(s) == {s[i] : i \in DOMAIN s}

PartAPaths ==
    {<<"partA", k>> : k \in {"courses", "eLearningInstances", "weeklyLoadSem1",
                             "weeklyLoadSem2", "phdScholar", "projectsGuided",
                             "ptgMeetings", "totalMarks"}}
    \cup {<<"partA", "sectionMarks", k>> :
            k \in {"resultAnalysis", "courseOutcome", "eLearning", "academicEngagement",
                   "teachingLoad", "projectsGuided", "studentFeedback", "ptgMeetings"}}

PartBPaths ==
    UNION {{<<"partB", c, m, l>> : m \in PartBMetrics(c), l \in verifiedMark} :
             c \in Range(B_CATEGORIES)}
    \cup {<<"partB", c, l>> : c \in Range(B_SINGLE), l \in verifiedMark}
    \cup {<<"partB", "totalClaimed">>, <<"partB", "totalVerified">>}

PartCPaths ==
    {<<"partC", k>> : k \in {"pdfCompleted", "pdfOngoing", "phdAwarded",
                             "totalMarks", "verifiedMarks"}}
    \cup {<<"partC", g, k>> : g \in {"trainingAttended", "trainingOrganized"},
                              k \in {"twoWeek", "oneWeek", "twoToFiveDays", "oneDay"}}
    \cup {<<"partC", "phdGuided", k>> : k \in {"awarded", "submitted", "ongoing"}}

PartDPaths ==
    {<<"partD", k>> : k \in {"portfolioType", "instituteLevelPortfolio",
                             "departmentLevelPortfolio", "selfAwardedMarks",
                             "deanMarks", "hodMarks", "isMarkDean", "isMarkHOD",
                             "isAdministrativeRole", "administrativeRole",
                             "adminSelfAwardedMarks", "directorMarks",
                             "adminDeanMarks", "totalMarks"}}

PartEPaths ==
    {<<"partE", k>> : k \in {"bulletPoints", "selfAwardedMarks", "evaluatorMarks"}}

SummaryPaths == {<<"summary", "grandTotalClaimed">>, <<"summary", "grandTotalVerified">>}

DeclarationPaths == {<<"declaration", "isAgreed">>, <<"declaration", "signatureDate">>}

\* every leaf path of facultyAppraisalSchema below the identity fields
SchemaPaths ==
    {<<"status">>} \cup PartAPaths \cup PartBPaths \cup PartCPaths \cup PartDPaths
    \cup PartEPaths \cup SummaryPaths \cup DeclarationPaths

\* schema paths of type Boolean
BooleanPaths ==
    {<<"partA", "phdScholar">>, <<"partC", "pdfCompleted">>, <<"partC", "pdfOngoing">>,
     <<"partC", "phdAwarded">>, <<"partD", "isMarkDean">>, <<"partD", "isMarkHOD">>,
     <<"partD", "isAdministrativeRole">>, <<"declaration", "isAgreed">>}

\* schema paths of type String
StringPaths ==
    {<<"status">>, <<"partD", "portfolioType">>, <<"partD", "instituteLevelPortfolio">>,
     <<"partD", "departmentLevelPortfolio">>, <<"partD", "administrativeRole">>,
     <<"partE", "bulletPoints">>}
    \cup {p \in PartBPaths : p[Len(p)] = "proof"}

\* schema paths of an array type: partA.courses, the list of the course
\* sub-documents
ArrayPaths == {<<"partA", "courses">>}

\* the value a path reads as when the store holds none (the schema default);
\* "undefined" for a path without default
Default(p) ==
    CASE p \in BooleanPaths -> FALSE
      [] p = <<"partD", "portfolioType">> -> "both"
      [] p = <<"status">> -> "undefined"
      [] p = <<"declaration", "signatureDate">> -> 0   \* no date: years start at 1
      [] p \in StringPaths -> ""
      [] p \in ArrayPaths -> <<>>
      [] OTHER -> 0

\* the value of path p as a read of the document returns it
Get(doc, p) == IF p \in DOMAIN doc THEN doc[p] ELSE Default(p)

----------------------------------------------------------------------------
\* Store primitives (Mongoose / MongoDB), as the handlers use them

\* an update document: $set of `sets` (full path -> value) after the
\* top-level keys in `clear` were replaced as a whole ($set: { partB: obj }
\* replaces everything the store held below partB)
NoSets == [p \in {} |-> 0]

\* index in the collection of the first document matching { userId }, 0 if none
FindIndex(coll, userId) ==
    IF \E i \in DOMAIN coll : coll[i].userId = userId
    THEN CHOOSE i \in DOMAIN coll :
            /\ coll[i].userId = userId
            /\ \A j \in DOMAIN coll : coll[j].userId = userId => i <= j
    ELSE 0

\* the numbers a request or a document holds
NumberRange == (0 - 9) .. 99

\* a number as JSON text, and a string as JSON text
NumberText == {ToString(n) : n \in NumberRange}
NumericStringText == {ToString(ToString(n)) : n \in NumberRange}

\* null, which an empty string casts to in a Number path
Null == "null"

\* typeof of a leaf value, from its JSON text: "boolean", "number", or
\* "string"
TypeOfText(text) ==
    IF text \in {"TRUE", "FALSE"} THEN "boolean"
    ELSE IF text \in NumberText THEN "number"
    ELSE "string"
TypeOf(v) == TypeOfText(ToString(v))

\* SchemaNumber / SchemaDate cast: numbers, booleans (1 and 0), strings of
\* a number, and the empty string (null)
castNumber(v) ==
    LET text == ToString(v)
    IN  IF text \in NumberText THEN v
        ELSE IF text \in {"TRUE", "FALSE"} THEN (IF v THEN 1 ELSE 0)
        ELSE IF text \in NumericStringText
        THEN CHOOSE n \in NumberRange : ToString(ToString(n)) = text
        ELSE Null

\* the values castNumber throws no CastError for
numberCastable(v) ==
    ToString(v) \in NumberText \cup {"TRUE", "FALSE"} \cup NumericStringText
                    \cup {ToString("")}

\* SchemaBoolean cast: convertToTrue and convertToFalse
convertToTrue(v) ==
    ToString(v) \in {"TRUE", "1", ToString("true"), ToString("1"), ToString("yes")}
convertToFalse(v) ==
    ToString(v) \in {"FALSE", "0", ToString("false"), ToString("0"), ToString("no")}

\* SchemaString cast: a number or a boolean becomes its text
castString(v) ==
    LET text == ToString(v)
    IN  IF text \in NumberText THEN text
        ELSE IF text \in {"TRUE", "FALSE"} THEN (IF v THEN "true" ELSE "false")
        ELSE v

\* the setters of a String path, which Mongoose runs on the values of a
\* new document and on those of a query filter alike.  trim: true removes
\* the spaces at both ends
trim(x) ==
    LET ks == {k \in 1 .. Len(x) : SubSeq(x, k, k) # " "}
    IN  IF ks = {} THEN ""
        ELSE SubSeq(x, CHOOSE k \in ks : \A j \in ks : k <= j,
                       CHOOSE k \in ks : \A j \in ks : k >= j)

\* lowercase: true, String.prototype.toLowerCase over the letters A to Z
RECURSIVE toLowerCase(_)
toLowerCase(x) ==
    LET upper == "ABCDEFGHIJKLMNOPQRSTUVWXYZ"
        lower == "abcdefghijklmnopqrstuvwxyz"
        c == SubSeq(x, 1, 1)
        ks == {k \in 1 .. Len(upper) : SubSeq(upper, k, k) = c}
    IN  IF Len(x) = 0 THEN ""
        ELSE (IF ks = {} THEN c ELSE LET k == CHOOSE k \in ks : TRUE IN SubSeq(lower, k, k))
                \o toLowerCase(SubSeq(x, 2, Len(x)))

\* the sub-schema of an element of partA.courses: the type of each field
CourseSchema ==
    [code |-> "String", semester |-> "String",
     studentsAbove60 |-> "Number", students50to59 |-> "Number",
     students40to49 |-> "Number", totalStudents |-> "Number", resultMarks |-> "Number",
     coAttainment |-> "Number", timelySubmissionCO |-> "Boolean", coMarks |-> "Number",
     studentsPresent |-> "Number", totalEnrolledStudents |-> "Number",
     engagementMarks |-> "Number", feedbackPercentage |-> "Number",
     feedbackMarks |-> "Number"]

\* the default of a field of the sub-schema
courseDefault(f) ==
    CASE CourseSchema[f] = "String" -> ""
      [] CourseSchema[f] = "Boolean" -> FALSE
      [] OTHER -> 0

\* a field of an element does not cast to its type
courseCastError(c) ==
    \E f \in DOMAIN c \cap DOMAIN CourseSchema :
        CASE CourseSchema[f] = "String" -> FALSE
          [] CourseSchema[f] = "Boolean" -> ~(convertToTrue(c[f]) \/ convertToFalse(c[f]))
          [] OTHER -> ~numberCastable(c[f])

\* an element of the array as a sub-document: the fields of the sub-schema
\* (no _id), each one cast from the element or at its default; keys outside
\* the sub-schema are dropped
castCourse(c) ==
    [f \in DOMAIN CourseSchema |->
        IF f \notin DOMAIN c THEN courseDefault(f)
        ELSE CASE CourseSchema[f] = "String" -> castString(c[f])
               [] CourseSchema[f] = "Boolean" -> convertToTrue(c[f])
               [] OTHER -> castNumber(c[f])]

\* the value does not cast to the type of the path: CastError
CastError(p, v) ==
    CASE p \in BooleanPaths -> ~(convertToTrue(v) \/ convertToFalse(v))
      [] p \in StringPaths -> FALSE
      [] p \in ArrayPaths -> \E k \in DOMAIN v : courseCastError(v[k])
      [] OTHER -> ~numberCastable(v)

\* the value stored for a value set at a path
Cast(p, v) ==
    CASE p \in BooleanPaths -> convertToTrue(v)
      [] p \in StringPaths -> castString(v)
      [] p \in ArrayPaths -> [k \in DOMAIN v |-> castCourse(v[k])]
      [] OTHER -> castNumber(v)

\* castUpdate throws: a value of the $set does not cast to its path
castThrows(sets) == \E p \in DOMAIN sets \cap SchemaPaths : CastError(p, sets[p])

\* castUpdate in strict mode: keys that are no schema path are dropped, the
\* others hold the value cast to the type of the path
castUpdate(sets) == [p \in DOMAIN sets \cap SchemaPaths |-> Cast(p, sets[p])]

\* the document after $set; ApplyIncrement is the $inc a merge must not be
ApplyIncrement(doc, clear, sets) ==
    LET kept == {p \in DOMAIN doc : p[1] \notin clear}
        cast == castUpdate(sets)
    IN  [p \in kept \cup DOMAIN cast |->
            IF p \notin DOMAIN cast THEN doc[p]
            ELSE IF p \in BooleanPaths \cup StringPaths THEN cast[p]
            ELSE Get(doc, p) + cast[p]]
ApplyUpdate(doc, clear, sets) ==
    LET kept == {p \in DOMAIN doc : p[1] \notin clear}
        cast == castUpdate(sets)
    IN  [p \in kept \cup DOMAIN cast |-> IF p \in DOMAIN cast THEN cast[p] ELSE doc[p]]

\* the identity fields of the schema, above the sections
IdentityPaths == {<<"userId">>, <<"appraisalYear">>, <<"role">>, <<"designation">>}

\* the identity fields of a record after a $set: a path of theirs that the
\* $set names takes its value
ApplyIdentity(record, sets) ==
    [record EXCEPT
        !.userId = IF <<"userId">> \in DOMAIN sets THEN sets[<<"userId">>] ELSE @,
        !.appraisalYear = IF <<"appraisalYear">> \in DOMAIN sets
                          THEN sets[<<"appraisalYear">>] ELSE @,
        !.role = IF <<"role">> \in DOMAIN sets THEN sets[<<"role">>] ELSE @,
        !.designation = IF <<"designation">> \in DOMAIN sets
                        THEN sets[<<"designation">>] ELSE @]

\* an update that replaces the document by the new paths, the status kept
findOneAndReplace(coll, userId, clear, sets) ==
    LET i == FindIndex(coll, userId)
    IN  IF i = 0 THEN coll
        ELSE [coll EXCEPT ![i].doc =
                ApplyUpdate((<<"status">> :> Get(coll[i].doc, <<"status">>)), clear, sets)]

\* FacultyAppraisal.findOneAndUpdate({ userId }, { $set }): the first match
\* is updated; no match leaves the collection as it is
findOneAndUpdate(coll, userId, clear, sets) ==
    LET i == FindIndex(coll, userId)
    IN  IF i = 0 THEN coll
        ELSE [coll EXCEPT ![i] = ApplyIdentity([coll[i] EXCEPT
                                      !.doc = ApplyUpdate(coll[i].doc, clear, sets)], sets)]

\* FacultyAppraisal.deleteOne({ userId }): the first match is removed
deleteOne(coll, userId) ==
    LET i == FindIndex(coll, userId)
    IN  IF i = 0 THEN coll
        ELSE SubSeq(coll, 1, i - 1) \o SubSeq(coll, i + 1, Len(coll))

\* update validators (runValidators: true): min / max / enum of the schema
Validates(p, v) ==
    CASE p \in PartBPaths /\ Len(p) > 2 /\ p[Len(p)] \in {"count", "claimed", "verified"}
            -> TypeOf(v) = "number" => v >= 0
      [] p = <<"partE", "selfAwardedMarks">> -> TypeOf(v) = "number" => v <= 50
      [] p = <<"partD", "portfolioType">> -> v \in {"institute", "department", "both"}
      [] p = <<"partD", "administrativeRole">>
            -> v \in {"associate_dean", "director", "hod", "dean", ""}
      [] p = <<"status">> -> v \in APPRAISAL_STATUS
      [] OTHER -> TRUE

runValidators(sets) ==
    LET cast == castUpdate(sets) IN \A p \in DOMAIN cast : Validates(p, cast[p])

\* the body of a section request taken as the $set itself
TopLevelObject(section, body) == body

\* the body of a section request (keys relative to the section) as the
\* object that $set: { <section>: body } stores
SectionObject(section, body) ==
    [p \in {<<section>> \o r : r \in DOMAIN body} |-> body[Tail(p)]]

\* object rest destructuring: const { k1, ..., ...rest } = body
Omit(body, keys) == [r \in {q \in DOMAIN body : q[1] \notin keys} |-> body[r]]

----------------------------------------------------------------------------
\* Guards of the handlers

\* JSON values of a request body, by their typeof
Num(n) == [num |-> n]
Str(x) == [str |-> x]
Bool(b) == [bool |-> b]
IsNumber(v) == "num" \in DOMAIN v
IsBoolean(v) == "bool" \in DOMAIN v

\* a request body without the key the handler reads
NoBody == <<>>

Status(a) == Get(a.doc, <<"status">>)

\* a response: the HTTP status, the kind of error, and the status the
\* message of a lifecycle error names ("" when it names none)
StatusResponse(code, err, current) == [code |-> code, err |-> err, current |-> current]
Response(code, err) == StatusResponse(code, err, "")
Pass == Response(OK, "none")

\* assertOwner; assertOwnerAnyone is the handler without the check
assertOwnerAnyone(requestingUserId, targetUserId) == TRUE
assertOwner(requestingUserId, targetUserId) == requestingUserId = targetUserId

\* assertDraft
assertDraft(appraisal) == Status(appraisal) = "DRAFT"

\* the common prologue of the faculty-facing handlers: owner, found, DRAFT
OwnerDraftGuard(coll, caller, target) ==
    IF ~assertOwner(caller.userId, target) THEN Response(FORBIDDEN, "forbidden")
    ELSE IF FindIndex(coll, target) = 0 THEN Response(NOT_FOUND, "not_found")
    ELSE IF ~assertDraft(coll[FindIndex(coll, target)])
         THEN StatusResponse(BAD_REQUEST, "locked", Status(coll[FindIndex(coll, target)]))
    ELSE Pass


----------------------------------------------------------------------------
\* Requests in flight: a handler runs from one store call to the next in a
\* step; between two steps of a request the steps of other requests may run

\* a place nothing has arrived in
Idle == [stage |-> "idle", op |-> "none", target |-> "", req |-> NoBody, read |-> "",
         code |-> 0, err |-> "none", current |-> ""]

\* the sections the record findAppraisalOrFail found holds values of
ReadSections(target) ==
    IF FindIndex(appraisals, target) = 0 THEN {}
    ELSE {q[1] : q \in DOMAIN appraisals[FindIndex(appraisals, target)].doc}

\* the _id of the record findAppraisalOrFail found, 0 when it found none
ReadId(target) ==
    IF FindIndex(appraisals, target) = 0 THEN 0
    ELSE appraisals[FindIndex(appraisals, target)].id

\* the status findAppraisalOrFail found, "" when it found no record
ReadStatus(target) ==
    IF FindIndex(appraisals, target) = 0 THEN ""
    ELSE Status(appraisals[FindIndex(appraisals, target)])

\* a request that was answered before its first store call: it read nothing
Refused(op, caller, target, body, r) ==
    [stage |-> "done", op |-> op, caller |-> caller, target |-> target, req |-> body,
     read |-> "", found |-> 0, seen |-> {},
     code |-> r.code, err |-> r.err, current |-> r.current, write |-> NoBody]

\* a request that was answered after findAppraisalOrFail, without a write
Answered(op, caller, target, body, read, r) ==
    [stage |-> "done", op |-> op, caller |-> caller, target |-> target, req |-> body,
     read |-> read, found |-> ReadId(target), seen |-> ReadSections(target),
     code |-> r.code, err |-> r.err, current |-> r.current, write |-> NoBody]

\* a request that passed its checks and has its write to do
Pending(op, caller, target, body, read, write) ==
    [stage |-> "apply", op |-> op, caller |-> caller, target |-> target, req |-> body,
     read |-> read, found |-> ReadId(target), seen |-> ReadSections(target),
     code |-> 0, err |-> "none", current |-> "", write |-> write]

\* a $set that replaces each section it names a path of as a whole
SetSections(clear, sets, validate) ==
    [kind |-> "set", clear |-> {q[1] : q \in DOMAIN sets}, sets |-> sets,
     validate |-> validate]

\* findOneAndUpdate({ userId }, { $set }, options) still to be done
SetWrite(clear, sets, validate) ==
    [kind |-> "set", clear |-> clear, sets |-> sets, validate |-> validate]

\* deleteOne({ userId }) still to be done
DeleteWrite == [kind |-> "delete", clear |-> {}, sets |-> NoSets, validate |-> FALSE]

\* appraisal.save() still to be done: the modified paths of the document
\* with this _id, each top-level key that was assigned replaced as a whole
SaveWrite(id, clear, sets, validate) ==
    [kind |-> "save", clear |-> clear, sets |-> sets, validate |-> validate, id |-> id]

----------------------------------------------------------------------------
\* Handlers of the appraisal API, one store call a step

\* the unique index { userId: 1, appraisalYear: 1 } that is never enforced
uniqueFree(coll, userId, appraisalYear) == TRUE

\* the index unique_appraisal_per_user_year: an insert is accepted when no
\* document holds the pair
uniqueIndex(coll, userId, appraisalYear) ==
    ~\E i \in DOMAIN coll :
        coll[i].userId = userId /\ coll[i].appraisalYear = appraisalYear

\* createAppraisal from its arrival to the FacultyAppraisal.findOne it sends:
\* User.findOne is answered (its filter is cast by userSchema, which trims
\* the userId), and the handler reads the clock
\* (new Date().getFullYear()) before it waits for the store again
createUser(p, caller) ==
    LET active == /\ trim(caller.userId) \in DOMAIN users
                  /\ users[trim(caller.userId)].status = "active"
    IN  /\ reqs[p].stage = "idle"
        /\ reqs' = [reqs EXCEPT ![p] =
              IF ~active
              THEN [stage |-> "done", op |-> "create", caller |-> caller, designation |-> "",
                    appraisalYear |-> 0, code |-> NOT_FOUND, err |-> "not_found"]
              ELSE [stage |-> "find", op |-> "create", caller |-> caller,
                    designation |-> users[trim(caller.userId)].designation,
                    appraisalYear |-> year, code |-> 0, err |-> "none"]]
        /\ UNCHANGED <<appraisals, users, teams, year, nextId>>

\* createAppraisal at the answer of FacultyAppraisal.findOne({ userId,
\* appraisalYear }), the year being the one that was read before the call
createFind(p) ==
    LET r == reqs[p]
        existing == \E i \in DOMAIN appraisals :
                        /\ appraisals[i].userId = r.caller.userId
                        /\ appraisals[i].appraisalYear = r.appraisalYear
    IN  /\ r.stage = "find"
        /\ reqs' = [reqs EXCEPT ![p] =
              IF existing
              THEN [r EXCEPT !.stage = "done", !.code = CONFLICT, !.err = "conflict"]
              ELSE [r EXCEPT !.stage = "insert"]]
        /\ UNCHANGED <<appraisals, users, teams, year, nextId>>

\* createAppraisal from FacultyAppraisal.create on: the document is validated
\* and inserted under the unique index; a failure of either is thrown and
\* answered by the catch block
createInsert(p) ==
    LET r == reqs[p]
    IN  /\ r.stage = "insert"
        /\ IF /\ r.designation \in ACADEMIC_CADRES
              /\ uniqueIndex(appraisals, r.caller.userId, r.appraisalYear)
           THEN /\ appraisals' = Append(appraisals,
                        [id |-> nextId, userId |-> r.caller.userId,
                         appraisalYear |-> r.appraisalYear, role |-> r.caller.role,
                         designation |-> r.designation,
                         doc |-> (<<"status">> :> "DRAFT")])
                /\ nextId' = nextId + 1
                /\ reqs' = [reqs EXCEPT ![p].stage = "done", ![p].code = CREATED]
           ELSE /\ reqs' = [reqs EXCEPT ![p].stage = "done",
                                        ![p].code = INTERNAL_SERVER_ERROR,
                                        ![p].err = "internal"]
                /\ UNCHANGED <<appraisals, nextId>>
        /\ UNCHANGED <<users, teams, year>>

\* updatePartA .. updatePartE up to their findOneAndUpdate
sectionRead(p, op, section, caller, target, body, fields) ==
    LET g == OwnerDraftGuard(appraisals, caller, target)
    IN  /\ reqs[p].stage = "idle"
        /\ reqs' = [reqs EXCEPT ![p] =
              IF ~assertOwner(caller.userId, target) THEN Refused(op, caller, target, body, g)
              ELSE IF g # Pass THEN Answered(op, caller, target, body, ReadStatus(target), g)
              ELSE Pending(op, caller, target, body, ReadStatus(target),
                           SetWrite({section}, SectionObject(section, fields), TRUE))]
        /\ UNCHANGED <<appraisals, users, teams, year, nextId>>

\* PUT /appraisal/:userId/part-a
updatePartA(p, caller, target, body) ==
    sectionRead(p, "updatePartA", "partA", caller, target, body, body)

\* PUT /appraisal/:userId/part-b
updatePartB(p, caller, target, body) ==
    sectionRead(p, "updatePartB", "partB", caller, target, body, body)

\* PUT /appraisal/:userId/part-c
updatePartC(p, caller, target, body) ==
    sectionRead(p, "updatePartC", "partC", caller, target, body, body)

\* updatePartD: the evaluator-only keys stripped from the body;
\* EvaluatorOnlyDMarks is the list without the two flags
EvaluatorOnlyDMarks == {"deanMarks", "hodMarks", "directorMarks", "adminDeanMarks"}
EvaluatorOnlyD ==
    {"deanMarks", "hodMarks", "directorMarks", "adminDeanMarks", "isMarkDean", "isMarkHOD"}

\* PUT /appraisal/:userId/part-d
updatePartD(p, caller, target, body) ==
    sectionRead(p, "updatePartD", "partD", caller, target, body, Omit(body, EvaluatorOnlyD))

\* PUT /appraisal/:userId/part-e
updatePartE(p, caller, target, body) ==
    sectionRead(p, "updatePartE", "partE", caller, target, body,
                Omit(body, {"evaluatorMarks"}))

\* authMiddleware(...roles): the request passes when no role is listed or
\* the identity's role is one of those listed
authMiddleware(roles, caller) == roles = {} \/ caller.role \in roles

\* a role switch whose director and associate_dean branches raise the dean's
\* flag as well
evaluatorSetFieldsFlagged(role, marks) ==
    CASE role = "dean" ->
            (<<"partD", "deanMarks">> :> marks) @@ (<<"partD", "isMarkDean">> :> TRUE)
      [] role = "hod" ->
            (<<"partD", "hodMarks">> :> marks) @@ (<<"partD", "isMarkHOD">> :> TRUE)
      [] role = "director" ->
            (<<"partD", "directorMarks">> :> marks) @@ (<<"partD", "isMarkDean">> :> TRUE)
      [] role = "associate_dean" ->
            (<<"partD", "adminDeanMarks">> :> marks) @@ (<<"partD", "isMarkDean">> :> TRUE)
      [] OTHER -> NoSets

\* updatePartDEvaluator: the $set the caller's role selects
evaluatorSetFields(role, marks) ==
    CASE role = "dean" ->
            (<<"partD", "deanMarks">> :> marks) @@ (<<"partD", "isMarkDean">> :> TRUE)
      [] role = "hod" ->
            (<<"partD", "hodMarks">> :> marks) @@ (<<"partD", "isMarkHOD">> :> TRUE)
      [] role = "director" -> (<<"partD", "directorMarks">> :> marks)
      [] role = "associate_dean" -> (<<"partD", "adminDeanMarks">> :> marks)
      [] OTHER -> NoSets

\* a marks test that accepts every number
validMarksAnyNumber(body) == "marks" \in DOMAIN body /\ IsNumber(body.marks)

\* updatePartDEvaluator: typeof marks === 'number' and marks >= 0
validMarks(body) ==
    "marks" \in DOMAIN body /\ IsNumber(body.marks) /\ body.marks.num >= 0

\* updatePartDEvaluator up to its findOneAndUpdate
evaluatorRead(p, caller, target, body) ==
    LET i == FindIndex(appraisals, target)
        op == "updatePartDEvaluator"
        read == ReadStatus(target)
    IN  /\ reqs[p].stage = "idle"
        /\ reqs' = [reqs EXCEPT ![p] =
              IF ~authMiddleware(EvaluatorMarkRoles, caller)
              THEN Refused(op, caller, target, body, Response(FORBIDDEN, "role_forbidden"))
              ELSE IF i = 0
              THEN Answered(op, caller, target, body, read, Response(NOT_FOUND, "not_found"))
              ELSE IF Status(appraisals[i]) # "SUBMITTED"
              THEN Answered(op, caller, target, body, read, Response(BAD_REQUEST, "bad_status"))
              ELSE IF ~validMarks(body)
              THEN Answered(op, caller, target, body, read, Response(BAD_REQUEST, "validation"))
              ELSE IF caller.role \notin {"dean", "hod", "director", "associate_dean"}
              THEN Answered(op, caller, target, body, read, Response(FORBIDDEN, "role_forbidden"))
              ELSE Pending(op, caller, target, body, read,
                           SetWrite({}, evaluatorSetFields(caller.role, body.marks.num),
                                    FALSE))]
        /\ UNCHANGED <<appraisals, users, teams, year, nextId>>

\* updateDeclaration up to its findOneAndUpdate
declarationRead(p, caller, target, body) ==
    LET g == OwnerDraftGuard(appraisals, caller, target)
        op == "updateDeclaration"
    IN  /\ reqs[p].stage = "idle"
        /\ reqs' = [reqs EXCEPT ![p] =
              IF ~assertOwner(caller.userId, target) THEN Refused(op, caller, target, body, g)
              ELSE IF g # Pass THEN Answered(op, caller, target, body, ReadStatus(target), g)
              ELSE IF ~("isAgreed" \in DOMAIN body /\ IsBoolean(body.isAgreed))
              THEN Answered(op, caller, target, body, ReadStatus(target),
                            Response(BAD_REQUEST, "validation"))
              ELSE Pending(op, caller, target, body, ReadStatus(target),
                           SetWrite({}, (<<"declaration", "isAgreed">> :> body.isAgreed.bool),
                                    FALSE))]
        /\ UNCHANGED <<appraisals, users, teams, year, nextId>>

\* the update that document.save() sends: the modified paths are written to
\* the document with this _id
save(coll, id, clear, sets) ==
    [i \in DOMAIN coll |->
        IF coll[i].id = id
        THEN ApplyIdentity([coll[i] EXCEPT !.doc = ApplyUpdate(coll[i].doc, clear, sets)],
                           sets)
        ELSE coll[i]]

\* submitAppraisal: the paths it modifies before save()
submitSets(now) ==
    (<<"status">> :> "SUBMITTED") @@ (<<"declaration", "signatureDate">> :> now)

\* document.validate(), which save() runs on the document the handler holds
\* before any update is sent: the validators of every path the document has
\* a value for, those it was loaded with included
documentValidates(doc) == \A q \in DOMAIN doc : Validates(q, doc[q])

\* submitAppraisal: the declaration check; declarationAgreedAlways is the
\* handler without it
declarationAgreedAlways(appraisal) == TRUE
declarationAgreed(appraisal) == Get(appraisal.doc, <<"declaration", "isAgreed">>)

\* submitAppraisal up to the update of appraisal.save(): the record is read
\* and checked, status and signature date are set on it, and the document
\* is validated; one that does not validate is thrown without an update
submitRead(p, caller, target) ==
    LET i == FindIndex(appraisals, target)
        op == "submit"
        read == ReadStatus(target)
    IN  /\ reqs[p].stage = "idle"
        /\ reqs' = [reqs EXCEPT ![p] =
              IF ~assertOwner(caller.userId, target)
              THEN Refused(op, caller, target, NoBody, Response(FORBIDDEN, "forbidden"))
              ELSE IF i = 0
              THEN Answered(op, caller, target, NoBody, read, Response(NOT_FOUND, "not_found"))
              ELSE IF Status(appraisals[i]) # "DRAFT"
              THEN Answered(op, caller, target, NoBody, read,
                            StatusResponse(BAD_REQUEST, "bad_status", Status(appraisals[i])))
              ELSE IF ~declarationAgreed(appraisals[i])
              THEN Answered(op, caller, target, NoBody, read,
                            Response(BAD_REQUEST, "declaration_required"))
              ELSE IF ~documentValidates(ApplyUpdate(appraisals[i].doc, {}, submitSets(year)))
              THEN Answered(op, caller, target, NoBody, read,
                            Response(INTERNAL_SERVER_ERROR, "internal"))
              ELSE [Pending(op, caller, target, NoBody, read,
                            SaveWrite(appraisals[i].id, {}, submitSets(year), TRUE))
                       EXCEPT !.stage = "save"]]
        /\ UNCHANGED <<appraisals, users, teams, year, nextId>>

\* the update of appraisal.save() and the answer that follows it: the
\* modified paths are sent for the _id that was read; when no document has
\* that _id any more the save is thrown
documentSave(p) ==
    LET r == reqs[p]
    IN  /\ r.stage = "save" /\ r.write.kind = "save"
        /\ IF \E i \in DOMAIN appraisals : appraisals[i].id = r.write.id
           THEN /\ appraisals' = save(appraisals, r.write.id, r.write.clear, r.write.sets)
                /\ reqs' = [reqs EXCEPT ![p].stage = "done", ![p].code = OK]
           ELSE /\ reqs' = [reqs EXCEPT ![p].stage = "done",
                                        ![p].code = INTERNAL_SERVER_ERROR,
                                        ![p].err = "internal"]
                /\ UNCHANGED appraisals
        /\ UNCHANGED <<users, teams, year, nextId>>

\* verifyAppraisal: the payload leaves that address a metric of a walked
\* Part B category (partB.<category>.<subKey> holding a number)
MetricLeaves(data) ==
    {p \in DOMAIN data : /\ Len(p) = 3
                         /\ p[1] = "partB"
                         /\ p[2] \in Range(B_CATEGORIES)
                         /\ IsNumber(data[p])}

\* verifyAppraisal: the payload leaves that address a single-metric category
SingleLeaves(data) ==
    {p \in DOMAIN data : /\ Len(p) = 2
                         /\ p[1] = "partB"
                         /\ p[2] \in Range(B_SINGLE)
                         /\ IsNumber(data[p])}

\* verifyAppraisal: the payload leaves copied to the path of the same name
DirectLeaves(data) ==
    {p \in DOMAIN data : /\ p \in {<<"partB", "totalVerified">>, <<"partC", "verifiedMarks">>,
                                   <<"partE", "evaluatorMarks">>,
                                   <<"summary", "grandTotalVerified">>}
                         /\ IsNumber(data[p])}

\* verifyAppraisal: the leaf of the record a metric leaf of the payload is
\* written to; claimedLeaf is the faculty's leaf beside it
claimedLeaf(p) == Append(p, "claimed")
verifiedLeaf(p) == Append(p, "verified")

\* verifyAppraisal: the $set built from the request body;
\* verifySetFieldsStatusOnly is the $set that leaves the payload out
verifySetFieldsStatusOnly(body) == (<<"status">> :> "VERIFIED")
verifySetFields(body) ==
    IF "verificationData" \notin DOMAIN body
    THEN (<<"status">> :> "VERIFIED")
    ELSE LET data == body.verificationData
             marks == MetricLeaves(data) \cup SingleLeaves(data)
             direct == DirectLeaves(data)
         IN  [q \in {<<"status">>} \cup {verifiedLeaf(p) : p \in marks} \cup direct |->
                IF q = <<"status">> THEN "VERIFIED"
                ELSE IF q \in direct THEN data[q].num
                ELSE data[SubSeq(q, 1, Len(q) - 1)].num]

\* verifyAppraisal: the document after its $set
verifyMerge(doc, body) == ApplyUpdate(doc, {}, verifySetFields(body))

\* a verifyAppraisal that answers 400 when a leaf of the payload is not a
\* number
verifyReadStrict(p, caller, target, body) ==
    LET i == FindIndex(appraisals, target)
        op == "verify"
        read == ReadStatus(target)
    IN  /\ reqs[p].stage = "idle"
        /\ reqs' = [reqs EXCEPT ![p] =
              IF ~authMiddleware(VerifyRoles, caller)
              THEN Refused(op, caller, target, body, Response(FORBIDDEN, "role_forbidden"))
              ELSE IF i = 0
              THEN Answered(op, caller, target, body, read, Response(NOT_FOUND, "not_found"))
              ELSE IF Status(appraisals[i]) # "SUBMITTED"
              THEN Answered(op, caller, target, body, read,
                            StatusResponse(BAD_REQUEST, "bad_status", Status(appraisals[i])))
              ELSE IF /\ "verificationData" \in DOMAIN body
                      /\ \E q \in DOMAIN body.verificationData :
                            ~IsNumber(body.verificationData[q])
              THEN Answered(op, caller, target, body, read, Response(BAD_REQUEST, "validation"))
              ELSE Pending(op, caller, target, body, read,
                           SetWrite({}, verifySetFields(body), FALSE))]
        /\ UNCHANGED <<appraisals, users, teams, year, nextId>>

\* verifyAppraisal up to its findOneAndUpdate
verifyRead(p, caller, target, body) ==
    LET i == FindIndex(appraisals, target)
        op == "verify"
        read == ReadStatus(target)
    IN  /\ reqs[p].stage = "idle"
        /\ reqs' = [reqs EXCEPT ![p] =
              IF ~authMiddleware(VerifyRoles, caller)
              THEN Refused(op, caller, target, body, Response(FORBIDDEN, "role_forbidden"))
              ELSE IF i = 0
              THEN Answered(op, caller, target, body, read, Response(NOT_FOUND, "not_found"))
              ELSE IF Status(appraisals[i]) # "SUBMITTED"
              THEN Answered(op, caller, target, body, read,
                            StatusResponse(BAD_REQUEST, "bad_status", Status(appraisals[i])))
              ELSE Pending(op, caller, target, body, read,
                           SetWrite({}, verifySetFields(body), FALSE))]
        /\ UNCHANGED <<appraisals, users, teams, year, nextId>>

\* approveAppraisal: the $set built from the request body
approveSetFields(body) ==
    IF "grandTotalVerified" \in DOMAIN body /\ IsNumber(body.grandTotalVerified)
    THEN (<<"status">> :> "APPROVED")
            @@ (<<"summary", "grandTotalVerified">> :> body.grandTotalVerified.num)
    ELSE (<<"status">> :> "APPROVED")

\* approveAppraisal: the status check; approvableSubmitted also lets a
\* SUBMITTED record through
approvableSubmitted(appraisal) == Status(appraisal) \in {"SUBMITTED", "VERIFIED"}
approvable(appraisal) == Status(appraisal) = "VERIFIED"

\* approveAppraisal up to its findOneAndUpdate
approveCheck(p, caller, target, body) ==
    LET i == FindIndex(appraisals, target)
        op == "approve"
        read == ReadStatus(target)
    IN  /\ reqs[p].stage = "idle"
        /\ reqs' = [reqs EXCEPT ![p] =
              IF ~authMiddleware(ApproveRoles, caller)
              THEN Refused(op, caller, target, body, Response(FORBIDDEN, "role_forbidden"))
              ELSE IF i = 0
              THEN Answered(op, caller, target, body, read, Response(NOT_FOUND, "not_found"))
              ELSE IF ~approvable(appraisals[i])
              THEN Answered(op, caller, target, body, read,
                            StatusResponse(BAD_REQUEST, "bad_status", Status(appraisals[i])))
              ELSE Pending(op, caller, target, body, read,
                           SetWrite({}, approveSetFields(body), FALSE))]
        /\ UNCHANGED <<appraisals, users, teams, year, nextId>>

\* deleteAppraisal: the status check
deletable(appraisal) == Status(appraisal) = "DRAFT"

\* deleteAppraisal up to its deleteOne
deleteRead(p, caller, target) ==
    LET i == FindIndex(appraisals, target)
        op == "delete"
        read == ReadStatus(target)
    IN  /\ reqs[p].stage = "idle"
        /\ reqs' = [reqs EXCEPT ![p] =
              IF ~assertOwner(caller.userId, target)
              THEN Refused(op, caller, target, NoBody, Response(FORBIDDEN, "forbidden"))
              ELSE IF i = 0
              THEN Answered(op, caller, target, NoBody, read, Response(NOT_FOUND, "not_found"))
              ELSE IF ~deletable(appraisals[i])
              THEN Answered(op, caller, target, NoBody, read, Response(BAD_REQUEST, "bad_status"))
              ELSE Pending(op, caller, target, NoBody, read, DeleteWrite)]
        /\ UNCHANGED <<appraisals, users, teams, year, nextId>>

----------------------------------------------------------------------------
\* The earlier handlers of /appraisal and the schema they import
\* (models/detailedAppraisal).  That schema has no appraisalYear, role or
\* designation and no unique index: a record of it is [id, userId, doc].

\* the fields of a mark of Part B and Part C, and of a mark of Part A
verifiedMarkField == {"count", "amount", "claimed", "verified", "proof"}
basicMarkField == {"value", "count", "claimed", "proof"}

\* the groups of Part B and of Part C, with the marks of each
DetailedGroups ==
    [partB |->
        [papers |-> {"sci", "esci", "scopus", "ugc", "other"},
         conferences |-> {"scopus", "other"},
         bookChapters |-> {"scopus", "other"},
         books |-> {"scopus", "national", "local"},
         citations |-> {"wos", "scopus", "googleScholar"},
         copyrights |-> {"individualRegistered", "individualGranted",
                         "instituteRegistered", "instituteGranted"},
         patents |-> {"individualRegistered", "individualPublished", "individualGranted",
                      "individualCommercialized", "instituteRegistered",
                      "institutePublished", "instituteGranted", "instituteCommercialized"},
         grants |-> {"research", "nonResearch"},
         revenue |-> {"training"},
         products |-> {"commercialized", "developed", "poc"},
         startup |-> {"revenue", "funding", "products", "poc", "registered"},
         awards |-> {"intlAward", "govtAward", "nationalAward", "intlFellowship",
                     "nationalFellowship"},
         industryInteraction |-> {"activeMou", "labDevelopment", "internshipsPlacements"}],
     partC |->
        [qualification |-> {"completed", "ongoing"},
         trainingAttended |-> {"twoWeek", "oneWeek", "twoToFiveDays", "oneDay"},
         trainingOrganized |-> {"twoWeek", "oneWeek", "twoToFiveDays", "oneDay"},
         phdGuided |-> {"awarded", "submitted", "ongoing"}]]

\* the top-level keys of the schema that hold nested paths
DetailedSections == {"partA", "partB", "partC", "partD", "partE", "summary", "declaration"}

\* every path of the schema: the marks of Part A, those of the groups of
\* Part B and Part C, the totals of the parts, the portfolios of Part D, and
\* the leaves of Part E, of the summary and of the declaration; strict mode
\* drops any other key that is set
DetailedPaths ==
    LET partA == {"resultAnalysis", "courseOutcome", "eLearningContent",
                  "academicEngagement", "teachingLoad", "projectsGuided",
                  "studentFeedback", "ptgMeetings"}
        portfolios == {"institutePortfolio", "departmentPortfolio"}
        portfolio == {"description", "selfAwardedMarks", "evaluatorMarks", "proof"}
        totals == {<<"partA", "totalClaimed">>, <<"partA", "calculatedTotal">>,
                   <<"partB", "totalClaimed">>, <<"partB", "totalVerified">>,
                   <<"partB", "calculatedTotal">>,
                   <<"partC", "totalClaimed">>, <<"partC", "calculatedTotal">>,
                   <<"partD", "totalClaimed">>, <<"partD", "totalVerified">>}
    IN  {<<"userId">>, <<"status">>}
        \cup {<<"partA", m, f>> : m \in partA, f \in basicMarkField}
        \cup UNION {UNION {{<<k, g, m, f>> : m \in DetailedGroups[k][g],
                                              f \in verifiedMarkField} :
                                g \in DOMAIN DetailedGroups[k]} : k \in DOMAIN DetailedGroups}
        \cup totals
        \cup {<<"partD", g, f>> : g \in portfolios, f \in portfolio}
        \cup {<<"partE", f>> : f \in {"contributionsDescription", "marksAwarded",
                                       "evaluatorMarks", "proof"}}
        \cup {<<"summary", f>> : f \in {"adminWeightage", "grandTotalClaimed",
                                         "grandTotalVerified", "maxGrandTotal"}}
        \cup {<<"declaration", "isAgreed">>, <<"declaration", "signatureDate">>}

\* the type of a path of the schema (a Date is held as its year)
DetailedType(q) ==
    CASE q = <<"declaration", "isAgreed">> -> "Boolean"
      [] q \in {<<"userId">>, <<"status">>} -> "String"
      [] q[Len(q)] \in {"proof", "description", "contributionsDescription"} -> "String"
      [] OTHER -> "Number"

\* the paths the schema gives no default: the fields of a mark other than
\* verified (and than value, count and claimed in Part A), the cap of the
\* grand total and the signature date
DetailedOptional ==
    {q \in DetailedPaths : \/ q[1] = "partA" /\ Len(q) = 3 /\ q[3] = "proof"
                           \/ Len(q) = 4 /\ q[4] # "verified"}
    \cup {<<"userId">>, <<"summary", "maxGrandTotal">>, <<"declaration", "signatureDate">>}

\* the default of a path that has one
DetailedDefault(q) ==
    CASE q = <<"status">> -> "DRAFT"
      [] DetailedType(q) = "Boolean" -> FALSE
      [] DetailedType(q) = "String" -> ""
      [] OTHER -> 0

\* the value of a path as a loaded document returns it; a path without a
\* default is read only when the store holds a value for it
DetailedGet(doc, q) == IF q \in DOMAIN doc THEN doc[q] ELSE DetailedDefault(q)

\* a value cast to the type of a path, and whether the cast throws
DetailedCast(q, v) ==
    CASE DetailedType(q) = "Boolean" -> convertToTrue(v)
      [] DetailedType(q) = "String" -> castString(v)
      [] OTHER -> castNumber(v)

DetailedCastError(q, v) ==
    CASE DetailedType(q) = "Boolean" -> ~(convertToTrue(v) \/ convertToFalse(v))
      [] DetailedType(q) = "String" -> FALSE
      [] OTHER -> ~numberCastable(v)

\* the validators of the schema: the enum of status, the cap of the grand
\* total, and userId being required (a String is required to be non-empty)
DetailedValidates(q, v) ==
    CASE q = <<"status">> -> v \in APPRAISAL_STATUS
      [] q = <<"summary", "maxGrandTotal">> -> TypeOf(v) = "number" => v <= 1000
      [] q = <<"userId">> -> v # ""
      [] OTHER -> TRUE

\* a top-level key of a loaded document as the handler reads it: the values
\* the store holds below it and the defaults of the paths it holds none for
hydrate(doc, k) ==
    [q \in {r \in DetailedPaths : r[1] = k /\ (r \in DOMAIN doc \/ r \notin DetailedOptional)}
        |-> DetailedGet(doc, q)]

\* utils.deepEqual of two objects given as their leaves
deepEqual(a, b) ==
    /\ DOMAIN a = DOMAIN b
    /\ \A q \in DOMAIN a : ToString(a[q]) = ToString(b[q])

\* the userId a body names, "" when it names none
bodyUserId(body) == IF <<"userId">> \in DOMAIN body THEN body[<<"userId">>] ELSE ""

\* Object.assign(appraisal, fields) marks a top-level key modified when the
\* value set differs from the one loaded: a string by its cast value, a
\* section (which is replaced as a whole) by deepEqual with what the loaded
\* document returns for it
isModified(record, fields, k) ==
    CASE k = "userId" ->
            <<k>> \in DOMAIN fields /\ castString(fields[<<k>>]) # record.userId
      [] k = "status" ->
            /\ <<k>> \in DOMAIN fields
            /\ castString(fields[<<k>>]) # DetailedGet(record.doc, <<k>>)
      [] k \in DetailedSections ->
            ~deepEqual(hydrate(record.doc, k),
                       [q \in {r \in DOMAIN fields : r[1] = k} |-> fields[q]])
      [] OTHER -> FALSE

\* the document as the handler holds it before save(): `fields` was
\* assigned to the loaded record with Object.assign and each path of
\* `leaves` was set after that.  clear: the sections that were replaced;
\* sets: the modified paths with the values to store; thrown: a value did
\* not cast; userId and doc: the document that save() validates
assign(record, fields, leaves) ==
    LET keys == {k \in {q[1] : q \in DOMAIN fields} : isModified(record, fields, k)}
        assigned == {q \in DOMAIN fields \cap DetailedPaths : q[1] \in keys}
        set == {q \in DOMAIN leaves :
                    \/ q = <<"declaration", "signatureDate">>
                    \/ ToString(DetailedCast(q, leaves[q]))
                            # ToString(DetailedGet(record.doc, q))}
        raw == [q \in assigned \cup set |-> IF q \in set THEN leaves[q] ELSE fields[q]]
        sets == [q \in DOMAIN raw |-> DetailedCast(q, raw[q])]
        clear == keys \cap DetailedSections
        kept == {q \in DOMAIN record.doc : q[1] \notin clear} \ DOMAIN sets
    IN  [clear |-> clear,
         sets |-> sets,
         thrown |-> \E q \in DOMAIN raw : DetailedCastError(q, raw[q]),
         userId |-> IF <<"userId">> \in DOMAIN sets THEN sets[<<"userId">>]
                    ELSE record.userId,
         doc |-> [q \in kept \cup (DOMAIN sets \ {<<"userId">>}) |->
                     IF q \in DOMAIN sets THEN sets[q] ELSE record.doc[q]]]

\* document.validate(), which save() runs before it sends an update: a
\* value that did not cast, and the validators of every path the document
\* holds, those it was loaded with included
detailedValidates(document) ==
    /\ ~document.thrown
    /\ DetailedValidates(<<"userId">>, document.userId)
    /\ \A q \in DOMAIN document.doc : DetailedValidates(q, document.doc[q])

\* the update that save() sends for the modified paths: each replaced
\* section is set as a whole, each other path on its own
update(coll, id, clear, sets) ==
    [i \in DOMAIN coll |->
        IF coll[i].id # id THEN coll[i]
        ELSE [coll[i] EXCEPT
                !.userId = IF <<"userId">> \in DOMAIN sets THEN sets[<<"userId">>] ELSE @,
                !.doc = [q \in ({r \in DOMAIN @ : r[1] \notin clear}
                                    \cup DOMAIN sets) \ {<<"userId">>} |->
                            IF q \in DOMAIN sets THEN sets[q] ELSE @[q]]]]

\* a request of the earlier handlers between two of its store calls
Waiting(stage, op, caller, target, body) ==
    [Refused(op, caller, target, body, Response(0, "none")) EXCEPT !.stage = stage]

\* the earlier handler after findOne and its checks: save() validates the
\* document it holds and answers 500 without an update when that fails,
\* and sends the update otherwise
saving(op, caller, target, body, read, record, document) ==
    IF ~detailedValidates(document)
    THEN Answered(op, caller, target, body, read,
                  Response(INTERNAL_SERVER_ERROR, "internal"))
    ELSE [Pending(op, caller, target, body, read,
                  [kind |-> "document", id |-> record.id, clear |-> document.clear,
                   sets |-> document.sets, validate |-> TRUE])
             EXCEPT !.stage = "save"]

\* POST /appraisal of the earlier handler, up to the answer of User.findOne:
\* the user is the one the body names (the filter is cast by userSchema,
\* which trims the userId)
createAppraisalUser(p, caller, body) ==
    LET op == "create"
        userId == bodyUserId(body)
    IN  /\ reqs[p].stage = "idle"
        /\ reqs' = [reqs EXCEPT ![p] =
              IF userId = ""
              THEN Refused(op, caller, userId, body, Response(BAD_REQUEST, "validation"))
              ELSE IF ~(trim(userId) \in DOMAIN users /\ users[trim(userId)].status = "active")
              THEN Refused(op, caller, userId, body, Response(NOT_FOUND, "not_found"))
              ELSE Waiting("existing", op, caller, userId, body)]
        /\ UNCHANGED <<appraisals, users, teams, year, nextId>>

\* the earlier createAppraisal: FacultyAppraisal.findOne({ userId }), a
\* record of any year
createAppraisalFind(p) ==
    LET r == reqs[p]
    IN  /\ r.stage = "existing" /\ r.op = "create"
        /\ reqs' = [reqs EXCEPT ![p] =
              IF FindIndex(appraisals, r.target) # 0
              THEN Answered(r.op, r.caller, r.target, r.req, ReadStatus(r.target),
                            Response(CONFLICT, "conflict"))
              ELSE Waiting("document", r.op, r.caller, r.target, r.req)]
        /\ UNCHANGED <<appraisals, users, teams, year, nextId>>

\* the earlier createAppraisal: new FacultyAppraisal({ userId, status }) and
\* its save(); the schema requires userId alone and has no unique index, so
\* the document is stored
createAppraisalSave(p) ==
    LET r == reqs[p]
        doc == (<<"status">> :> "DRAFT")
    IN  /\ r.stage = "document" /\ r.op = "create"
        /\ IF /\ DetailedValidates(<<"userId">>, r.target)
              /\ \A q \in DOMAIN doc : DetailedValidates(q, doc[q])
           THEN /\ appraisals' = Append(appraisals,
                        [id |-> nextId, userId |-> r.target, doc |-> doc])
                /\ nextId' = nextId + 1
                /\ reqs' = [reqs EXCEPT ![p].stage = "done", ![p].code = CREATED]
           ELSE /\ reqs' = [reqs EXCEPT ![p].stage = "done",
                                        ![p].code = INTERNAL_SERVER_ERROR,
                                        ![p].err = "internal"]
                /\ UNCHANGED <<appraisals, nextId>>
        /\ UNCHANGED <<users, teams, year>>

\* updateAppraisal: the status check
updatable(appraisal) == Status(appraisal) # "APPROVED"

\* PUT /appraisal/:userId of the earlier handler, up to the update of
\* appraisal.save(): Object.assign(appraisal, body) sets every top-level key
\* the body names, userId included
updateRead(p, caller, target, body) ==
    LET i == FindIndex(appraisals, target)
        op == "updateAppraisal"
        read == ReadStatus(target)
    IN  /\ reqs[p].stage = "idle"
        /\ reqs' = [reqs EXCEPT ![p] =
              IF bodyUserId(body) # target
              THEN Refused(op, caller, target, body, Response(FORBIDDEN, "forbidden"))
              ELSE IF i = 0
              THEN Answered(op, caller, target, body, read, Response(NOT_FOUND, "not_found"))
              ELSE IF ~updatable(appraisals[i])
              THEN Answered(op, caller, target, body, read,
                            Response(BAD_REQUEST, "bad_status"))
              ELSE saving(op, caller, target, body, read, appraisals[i],
                          assign(appraisals[i], body, NoSets))]
        /\ UNCHANGED <<appraisals, users, teams, year, nextId>>

\* PATCH /appraisal/:userId/submit of the earlier handler, up to the update
\* of appraisal.save(): the owner is whoever the body names
submitAppraisalRead(p, caller, target, body) ==
    LET i == FindIndex(appraisals, target)
        op == "submit"
        read == ReadStatus(target)
    IN  /\ reqs[p].stage = "idle"
        /\ reqs' = [reqs EXCEPT ![p] =
              IF bodyUserId(body) # target
              THEN Refused(op, caller, target, body, Response(FORBIDDEN, "forbidden"))
              ELSE IF i = 0
              THEN Answered(op, caller, target, body, read, Response(NOT_FOUND, "not_found"))
              ELSE IF Status(appraisals[i]) # "DRAFT"
              THEN Answered(op, caller, target, body, read,
                            StatusResponse(BAD_REQUEST, "bad_status", Status(appraisals[i])))
              ELSE IF ~declarationAgreed(appraisals[i])
              THEN Answered(op, caller, target, body, read,
                            Response(BAD_REQUEST, "declaration_required"))
              ELSE saving(op, caller, target, body, read, appraisals[i],
                          assign(appraisals[i], NoSets, submitSets(year)))]
        /\ UNCHANGED <<appraisals, users, teams, year, nextId>>

\* the keys of verificationData, which Object.assign puts on the document
verificationFields(body) ==
    [q \in {Tail(r) : r \in {k \in DOMAIN body : k[1] = "verificationData"}} |->
        body[<<"verificationData">> \o q]]

\* PATCH /appraisal/:userId/verify of the earlier handler, up to the update
\* of appraisal.save(): no role is asked for; every top-level key of
\* verificationData is set on the document, then the status is
verifyAppraisalRead(p, caller, target, body) ==
    LET i == FindIndex(appraisals, target)
        op == "verify"
        read == ReadStatus(target)
    IN  /\ reqs[p].stage = "idle"
        /\ reqs' = [reqs EXCEPT ![p] =
              IF i = 0
              THEN Answered(op, caller, target, body, read, Response(NOT_FOUND, "not_found"))
              ELSE IF Status(appraisals[i]) # "SUBMITTED"
              THEN Answered(op, caller, target, body, read,
                            StatusResponse(BAD_REQUEST, "bad_status", Status(appraisals[i])))
              ELSE saving(op, caller, target, body, read, appraisals[i],
                          assign(appraisals[i], verificationFields(body),
                                 (<<"status">> :> "VERIFIED")))]
        /\ UNCHANGED <<appraisals, users, teams, year, nextId>>

\* the earlier approveAppraisal: the paths it sets before save()
approveAppraisalSets(body) ==
    IF <<"adminWeightage">> \in DOMAIN body
    THEN (<<"status">> :> "APPROVED")
            @@ (<<"summary", "adminWeightage">> :> body[<<"adminWeightage">>])
    ELSE (<<"status">> :> "APPROVED")

\* PATCH /appraisal/:userId/approve of the earlier handler, up to the update
\* of appraisal.save(): no role is asked for
approveAppraisalRead(p, caller, target, body) ==
    LET i == FindIndex(appraisals, target)
        op == "approve"
        read == ReadStatus(target)
    IN  /\ reqs[p].stage = "idle"
        /\ reqs' = [reqs EXCEPT ![p] =
              IF i = 0
              THEN Answered(op, caller, target, body, read, Response(NOT_FOUND, "not_found"))
              ELSE IF Status(appraisals[i]) # "VERIFIED"
              THEN Answered(op, caller, target, body, read,
                            StatusResponse(BAD_REQUEST, "bad_status", Status(appraisals[i])))
              ELSE saving(op, caller, target, body, read, appraisals[i],
                          assign(appraisals[i], NoSets, approveAppraisalSets(body)))]
        /\ UNCHANGED <<appraisals, users, teams, year, nextId>>

\* the update of the earlier handlers' appraisal.save() and the answer that
\* follows it; when no document has the _id that was read the save is thrown
appraisalSave(p) ==
    LET r == reqs[p]
    IN  /\ r.stage = "save" /\ r.write.kind = "document"
        /\ IF \E i \in DOMAIN appraisals : appraisals[i].id = r.write.id
           THEN /\ appraisals' = update(appraisals, r.write.id, r.write.clear, r.write.sets)
                /\ reqs' = [reqs EXCEPT ![p].stage = "done", ![p].code = OK]
           ELSE /\ reqs' = [reqs EXCEPT ![p].stage = "done",
                                        ![p].code = INTERNAL_SERVER_ERROR,
                                        ![p].err = "internal"]
                /\ UNCHANGED appraisals
        /\ UNCHANGED <<users, teams, year, nextId>>

\* DELETE /appraisal/:userId of the earlier handler, up to its deleteOne
deleteAppraisalRead(p, caller, target, body) ==
    LET i == FindIndex(appraisals, target)
        op == "delete"
        read == ReadStatus(target)
    IN  /\ reqs[p].stage = "idle"
        /\ reqs' = [reqs EXCEPT ![p] =
              IF bodyUserId(body) # target
              THEN Refused(op, caller, target, body, Response(FORBIDDEN, "forbidden"))
              ELSE IF i = 0
              THEN Answered(op, caller, target, body, read, Response(NOT_FOUND, "not_found"))
              ELSE IF Status(appraisals[i]) # "DRAFT"
              THEN Answered(op, caller, target, body, read, Response(BAD_REQUEST, "bad_status"))
              ELSE [Pending(op, caller, target, body, read, DeleteWrite)
                       EXCEPT !.stage = "deleteOne"]]
        /\ UNCHANGED <<appraisals, users, teams, year, nextId>>

\* FacultyAppraisal.deleteOne({ userId }) of the earlier deleteAppraisal and
\* the answer that follows it: the first record of the user is removed
deleteAppraisalOne(p) ==
    LET r == reqs[p]
    IN  /\ r.stage = "deleteOne" /\ r.op = "delete"
        /\ appraisals' = deleteOne(appraisals, r.target)
        /\ reqs' = [reqs EXCEPT ![p].stage = "done", ![p].code = OK]
        /\ UNCHANGED <<users, teams, year, nextId>>

----------------------------------------------------------------------------
\* a write that sets the status in a store step of its own and the rest of
\* its $set in a later one
applyWriteInTwo(p) ==
    LET r == reqs[p]
        first == DOMAIN r.write.sets \cap {<<"status">>}
        rest == DOMAIN r.write.sets \ first
    IN  /\ r.stage = "apply"
        /\ IF r.write.kind = "delete"
           THEN /\ appraisals' = deleteOne(appraisals, r.target)
                /\ reqs' = [reqs EXCEPT ![p].stage = "done", ![p].code = OK]
           ELSE IF first # {} /\ rest # {}
           THEN /\ appraisals' = findOneAndUpdate(appraisals, r.target, {},
                                                  [q \in first |-> r.write.sets[q]])
                /\ reqs' = [reqs EXCEPT ![p].write.sets = [q \in rest |-> r.write.sets[q]]]
           ELSE IF \/ castThrows(r.write.sets)
                   \/ r.write.validate /\ ~runValidators(r.write.sets)
           THEN /\ reqs' = [reqs EXCEPT ![p].stage = "done",
                                        ![p].code = INTERNAL_SERVER_ERROR,
                                        ![p].err = "internal"]
                /\ UNCHANGED appraisals
           ELSE /\ appraisals' = findOneAndUpdate(appraisals, r.target,
                                                  r.write.clear, r.write.sets)
                /\ reqs' = [reqs EXCEPT ![p].stage = "done", ![p].code = OK]
        /\ UNCHANGED <<users, teams, year, nextId>>

\* the write of a request that passed its checks, against the store as it is
\* by now, and the answer that follows it
applyWrite(p) ==
    LET r == reqs[p]
    IN  /\ r.stage = "apply"
        /\ IF r.write.kind = "delete"
           THEN /\ appraisals' = deleteOne(appraisals, r.target)
                /\ reqs' = [reqs EXCEPT ![p].stage = "done", ![p].code = OK]
           ELSE IF \/ castThrows(r.write.sets)
                   \/ r.write.validate /\ ~runValidators(r.write.sets)
           THEN /\ reqs' = [reqs EXCEPT ![p].stage = "done",
                                        ![p].code = INTERNAL_SERVER_ERROR,
                                        ![p].err = "internal"]
                /\ UNCHANGED appraisals
           ELSE /\ appraisals' = findOneAndUpdate(appraisals, r.target,
                                                  r.write.clear, r.write.sets)
                /\ reqs' = [reqs EXCEPT ![p].stage = "done", ![p].code = OK]
        /\ UNCHANGED <<users, teams, year, nextId>>

\* the answer of a request has been sent: its place is free for the next
\* request
release(p) ==
    /\ reqs[p].stage = "done"
    /\ reqs' = [reqs EXCEPT ![p] = Idle]
    /\ UNCHANGED <<appraisals, users, teams, year, nextId>>

\* the clock passes into the next year: new Date().getFullYear() of
\* createAppraisal answers one more from now on
newYear ==
    /\ year < MaxYear
    /\ year' = year + 1
    /\ UNCHANGED <<appraisals, users, teams, nextId, reqs>>
----------------------------------------------------------------------------
\* Verification committees and the administration of users, one store call a
\* step

DEPARTMENT ==
    {"computer", "it", "mechanical", "civil", "entc", "computer_regional", "aiml", "ash"}

DESIGNATION == {"Professor", "Associate Professor", "Assistant Professor"}

STAKEHOLDER_STATUS == {"active", "inactive"}

\* the documents a find answers with, in the order of their _id
RECURSIVE InIdOrder(_, _)
InIdOrder(coll, ids) ==
    IF ids = {} THEN <<>>
    ELSE LET u == CHOOSE u \in ids : \A w \in ids : coll[u].id <= coll[w].id
         IN  <<u>> \o InIdOrder(coll, ids \ {u})

\* User.find({ userId: { $in: ids } }): the filter is cast by the schema, so
\* each id is trimmed before it is matched
findUsersIn(coll, ids) == InIdOrder(coll, DOMAIN coll \cap {trim(id) : id \in Range(ids)})

\* the users of a department whatever their role
departmentMembers(coll, department) ==
    InIdOrder(coll, {u \in DOMAIN coll : coll[u].department = department})

\* User.find({ department, role: 'faculty' })
departmentFaculty(coll, department) ==
    InIdOrder(coll, {u \in DOMAIN coll :
                        coll[u].department = department /\ coll[u].role = "faculty"})

\* the quotient rounded down
CeilDown(n, k) == n \div k

\* Math.ceil(n / k) for k >= 1
Ceil(n, k) == (n + k - 1) \div k

\* departmentFaculty.slice(startIndex, endIndex) of the verifier at index i,
\* counted from 0
assignedFaculties(roster, i, facultyPerVerifier) ==
    LET startIndex == i * facultyPerVerifier
        endIndex == IF startIndex + facultyPerVerifier < Len(roster)
                    THEN startIndex + facultyPerVerifier ELSE Len(roster)
    IN  SubSeq(roster, startIndex + 1, endIndex)

\* VerificationTeam.deleteMany({ department, userId: { $in: ids } })
deleteTeamsIn(coll, department, ids) ==
    SelectSeq(coll, LAMBDA r : ~(r.department = department /\ r.userId \in ids))

\* a purge that removes no team
deleteTeamsNone(coll, department, ids) == coll

\* VerificationTeam.deleteMany({ department, userId: { $nin: ids } })
deleteTeamsNotIn(coll, department, ids) ==
    SelectSeq(coll, LAMBDA r : ~(r.department = department /\ r.userId \notin ids))

\* VerificationTeam.findOne({ userId, department }): the index of the first
\* match, 0 when there is none
FindTeam(coll, userId, department) ==
    IF \E i \in DOMAIN coll : coll[i].userId = userId /\ coll[i].department = department
    THEN CHOOSE i \in DOMAIN coll :
            /\ coll[i].userId = userId /\ coll[i].department = department
            /\ \A j \in DOMAIN coll :
                  (coll[j].userId = userId /\ coll[j].department = department) => i <= j
    ELSE 0

\* existingTeam.save(): faculties is sent when the value assigned differs
\* from the one loaded, and the first team of the verifier and the
\* department takes it; a save that modified nothing sends no update
existingTeamSave(coll, userId, department, loaded, faculties) ==
    IF faculties = loaded THEN coll
    ELSE [coll EXCEPT ![FindTeam(coll, userId, department)].faculties = faculties]

\* a save that rebuilds the department: the other teams of the department
\* are dropped and the verifier's team is saved anew
replaceTeams(coll, userId, department, faculties) ==
    Append(SelectSeq(coll, LAMBDA r : r.department # department),
           [userId |-> userId, department |-> department, faculties |-> faculties])

\* newTeam.save(): a team is added, whatever teams the collection holds
newTeamSave(coll, userId, department, faculties) ==
    Append(coll, [userId |-> userId, department |-> department, faculties |-> faculties])

\* the requests that found a team and have it to save lose it when a
\* deleteMany removes it: their save will find no document of its _id.  The
\* deleteMany is the one of the verifiers listed in ids, or of those not
\* listed in them
Forget(rs, department, ids, listed) ==
    [q \in DOMAIN rs |->
        IF /\ rs[q].stage = "save"
           /\ rs[q].op \in {"rebuild", "reassign"}
           /\ rs[q].existing
           /\ rs[q].req.department = department
           /\ (rs[q].verifier \in ids) = listed
        THEN [rs[q] EXCEPT !.gone = TRUE]
        ELSE rs[q]]

\* an update of faculties, an array, is sent for the version (__v) that was
\* loaded and increments it: the requests that found the same team and have
\* it to save hold a version the store has no more
Outdate(rs, department, verifier) ==
    [q \in DOMAIN rs |->
        IF /\ rs[q].stage = "save"
           /\ rs[q].op \in {"rebuild", "reassign"}
           /\ rs[q].existing
           /\ rs[q].req.department = department
           /\ rs[q].verifier = verifier
        THEN [rs[q] EXCEPT !.stale = TRUE]
        ELSE rs[q]]

\* a department check that finds no verifier
sameDepartmentNone(coll, verifiers, department) == {}

\* verifiers.filter(v => v.department === department)
sameDepartment(coll, verifiers, department) ==
    {v \in Range(verifiers) : coll[v].department = department}

\* a rebuild that was answered before a store call of its own; before is the
\* collection of teams the request found
RebuildAnswered(body, before, r) ==
    [stage |-> "done", op |-> "rebuild", req |-> body, verifiers |-> <<>>,
     roster |-> <<>>, deleted |-> {}, kept |-> {}, i |-> 0, verifier |-> "",
     existing |-> FALSE, loaded |-> <<>>, gone |-> FALSE, stale |-> FALSE,
     before |-> before, code |-> r.code, err |-> r.err]

\* POST /verification-committee/create, a route of the admin role, up to the
\* answer of User.find({ userId: { $in: committee_ids } }) and the checks of
\* the verifiers
rebuildArrive(p, body) ==
    LET department == body.department
        committee_ids == body.committee_ids
        verifiers == findUsersIn(users, committee_ids)
        sameDeptVerifiers == sameDepartment(users, verifiers, department)
    IN  /\ reqs[p].stage = "idle"
        /\ reqs' = [reqs EXCEPT ![p] =
              IF department = "" \/ "committee_ids" \notin DOMAIN body
              THEN RebuildAnswered(body, teams, Response(BAD_REQUEST, "validation"))
              ELSE IF Len(verifiers) # Len(committee_ids)
              THEN RebuildAnswered(body, teams, Response(BAD_REQUEST, "invalid_ids"))
              ELSE IF sameDeptVerifiers # {}
              THEN RebuildAnswered(body, teams, Response(BAD_REQUEST, "same_department"))
              ELSE [RebuildAnswered(body, teams, Response(0, "none"))
                       EXCEPT !.stage = "roster", !.verifiers = verifiers]]
        /\ UNCHANGED <<appraisals, users, teams, year, nextId>>

\* User.find({ department, role: 'faculty' })
rebuildRoster(p) ==
    LET r == reqs[p]
    IN  /\ r.stage = "roster" /\ r.op = "rebuild"
        /\ reqs' = [reqs EXCEPT
                       ![p].roster = departmentFaculty(users, r.req.department),
                       ![p].stage = IF Len(r.req.deleted_verifiers) > 0
                                    THEN "deleted" ELSE "kept"]
        /\ UNCHANGED <<appraisals, users, teams, year, nextId>>

\* User.find({ userId: { $in: deleted_verifiers } })
rebuildDeleted(p) ==
    LET r == reqs[p]
    IN  /\ r.stage = "deleted" /\ r.op = "rebuild"
        /\ reqs' = [reqs EXCEPT
                       ![p].deleted = Range(findUsersIn(users, r.req.deleted_verifiers)),
                       ![p].stage = "remove"]
        /\ UNCHANGED <<appraisals, users, teams, year, nextId>>

\* the deleteMany of the teams of the deleted verifiers
rebuildRemove(p) ==
    LET r == reqs[p]
    IN  /\ r.stage = "remove" /\ r.op = "rebuild"
        /\ teams' = deleteTeamsIn(teams, r.req.department, r.deleted)
        /\ reqs' = [Forget(reqs, r.req.department, r.deleted, TRUE) EXCEPT ![p].stage = "kept"]
        /\ UNCHANGED <<appraisals, users, year, nextId>>

\* User.find({ userId: { $in: committee_ids } }), the existing verifier ids
rebuildKept(p) ==
    LET r == reqs[p]
    IN  /\ r.stage = "kept" /\ r.op = "rebuild"
        /\ reqs' = [reqs EXCEPT
                       ![p].kept = Range(findUsersIn(users, r.req.committee_ids)),
                       ![p].stage = "purge"]
        /\ UNCHANGED <<appraisals, users, teams, year, nextId>>

\* the deleteMany of the teams of the department whose verifier is not in
\* the committee; with no verifier the loop has nothing to do and the
\* handler goes on to its last find
rebuildPurge(p) ==
    LET r == reqs[p]
    IN  /\ r.stage = "purge" /\ r.op = "rebuild"
        /\ teams' = deleteTeamsNotIn(teams, r.req.department, r.kept)
        /\ reqs' = [Forget(reqs, r.req.department, r.kept, FALSE) EXCEPT
                       ![p].stage = IF Len(r.verifiers) = 0 THEN "populate" ELSE "find"]
        /\ UNCHANGED <<appraisals, users, year, nextId>>

\* VerificationTeam.findOne({ userId, department }) of the verifier at index i
rebuildFind(p) ==
    LET r == reqs[p]
        verifier == r.verifiers[r.i + 1]
        k == FindTeam(teams, verifier, r.req.department)
    IN  /\ r.stage = "find" /\ r.op = "rebuild"
        /\ reqs' = [reqs EXCEPT ![p].stage = "save",
                                ![p].verifier = verifier,
                                ![p].existing = k # 0,
                                ![p].loaded = IF k # 0 THEN teams[k].faculties ELSE <<>>,
                                ![p].gone = FALSE,
                                ![p].stale = FALSE]
        /\ UNCHANGED <<appraisals, users, teams, year, nextId>>

\* existingTeam.save() or newTeam.save() of the verifier at index i.  It
\* throws for a team that was found and is gone, for a team whose faculties
\* were modified after it was found when this save modifies them too, and
\* for a new team that does not validate
rebuildSave(p) ==
    LET r == reqs[p]
        department == r.req.department
        faculties == assignedFaculties(r.roster, r.i, Ceil(Len(r.roster), Len(r.verifiers)))
        modified == r.existing /\ faculties # r.loaded
        thrown == IF r.existing THEN r.gone \/ (modified /\ r.stale)
                  ELSE department \notin DEPARTMENT
        others == IF modified THEN Outdate(reqs, department, r.verifier) ELSE reqs
    IN  /\ r.stage = "save" /\ r.op = "rebuild"
        /\ IF thrown
           THEN /\ reqs' = [reqs EXCEPT ![p].stage = "done",
                                        ![p].code = INTERNAL_SERVER_ERROR,
                                        ![p].err = "internal"]
                /\ UNCHANGED teams
           ELSE /\ teams' = IF r.existing
                            THEN existingTeamSave(teams, r.verifier, department,
                                                  r.loaded, faculties)
                            ELSE newTeamSave(teams, r.verifier, department, faculties)
                /\ reqs' = IF r.i + 1 = Len(r.verifiers)
                           THEN [others EXCEPT ![p].stage = "populate", ![p].i = r.i + 1]
                           ELSE [others EXCEPT ![p].stage = "find", ![p].i = r.i + 1]
        /\ UNCHANGED <<appraisals, users, year, nextId>>

\* VerificationTeam.find({ department }) with its populate, and the answer:
\* the teams are read for the response and nothing is written
rebuildPopulate(p) ==
    /\ reqs[p].stage = "populate" /\ reqs[p].op = "rebuild"
    /\ reqs' = [reqs EXCEPT ![p].stage = "done", ![p].code = OK]
    /\ UNCHANGED <<appraisals, users, teams, year, nextId>>

\* the first store call of a rebuild, User.find of the committee, is
\* rejected: the catch block answers 500
rebuildFails(p, body) ==
    /\ reqs[p].stage = "idle"
    /\ body.department # "" /\ "committee_ids" \in DOMAIN body
    /\ reqs' = [reqs EXCEPT ![p] =
          RebuildAnswered(body, teams, Response(INTERNAL_SERVER_ERROR, "internal"))]
    /\ UNCHANGED <<appraisals, users, teams, year, nextId>>

\* a later store call a rebuild waits for is rejected: the catch block
\* answers 500 and nothing is undone
storeFails(p) ==
    /\ reqs[p].op = "rebuild"
    /\ reqs[p].stage \in {"roster", "deleted", "remove", "kept", "purge", "find", "save", "populate"}
    /\ reqs' = [reqs EXCEPT ![p].stage = "done", ![p].code = INTERNAL_SERVER_ERROR,
                            ![p].err = "internal"]
    /\ UNCHANGED <<appraisals, users, teams, year, nextId>>

\* id.split(' ')[0]: the id up to its first space, the whole id when it has
\* none
cleanId(id) ==
    LET spaces == {k \in 1..Len(id) : SubSeq(id, k, k) = " "}
    IN  IF spaces = {} THEN id
        ELSE SubSeq(id, 1, (CHOOSE k \in spaces : \A j \in spaces : k <= j) - 1)

\* a reassign in flight: the entry of Object.entries(assignments) it is at,
\* the verifier and the faculties it found for it, and whether it found a
\* team
Reassign(body, stage, r) ==
    [stage |-> stage, op |-> "reassign", req |-> body, i |-> 1, verifier |-> "",
     faculties |-> <<>>, existing |-> FALSE, loaded |-> <<>>, gone |-> FALSE,
     stale |-> FALSE, before |-> teams, code |-> r.code, err |-> r.err]

\* the entry after the one at index i, or the answer after the last
entryAfter(r) ==
    IF r.i = Len(r.req.assignments)
    THEN [r EXCEPT !.stage = "done", !.code = OK]
    ELSE [r EXCEPT !.stage = "verifier", !.i = r.i + 1]

\* POST /verification-committee/assign, a route of the admin role, up to its
\* loop over the entries
assignFacultiesToCommittee(p, body) ==
    /\ reqs[p].stage = "idle"
    /\ reqs' = [reqs EXCEPT ![p] =
          IF body.department = "" \/ "assignments" \notin DOMAIN body
          THEN Reassign(body, "done", Response(BAD_REQUEST, "validation"))
          ELSE IF Len(body.assignments) = 0
          THEN Reassign(body, "done", Response(OK, "none"))
          ELSE Reassign(body, "verifier", Response(0, "none"))]
    /\ UNCHANGED <<appraisals, users, teams, year, nextId>>

\* User.findOne({ userId: cleanVerifierId }) of the entry at index i: an
\* entry of no user is passed over
assignVerifier(p) ==
    LET r == reqs[p]
        cleanVerifierId == cleanId(r.req.assignments[r.i][1])
    IN  /\ r.stage = "verifier" /\ r.op = "reassign"
        /\ reqs' = [reqs EXCEPT ![p] =
              IF trim(cleanVerifierId) \notin DOMAIN users THEN entryAfter(r)
              ELSE [r EXCEPT !.stage = "faculties", !.verifier = trim(cleanVerifierId)]]
        /\ UNCHANGED <<appraisals, users, teams, year, nextId>>

\* User.find({ userId: { $in: cleanFacultyIds } })
assignFaculties(p) ==
    LET r == reqs[p]
        facultyIds == r.req.assignments[r.i][2]
        cleanFacultyIds == [k \in DOMAIN facultyIds |-> cleanId(facultyIds[k])]
    IN  /\ r.stage = "faculties" /\ r.op = "reassign"
        /\ reqs' = [reqs EXCEPT ![p].stage = "find",
                                ![p].faculties = findUsersIn(users, cleanFacultyIds)]
        /\ UNCHANGED <<appraisals, users, teams, year, nextId>>

\* VerificationTeam.findOne({ userId, department }) of the entry's verifier
assignFind(p) ==
    LET r == reqs[p]
        k == FindTeam(teams, r.verifier, r.req.department)
    IN  /\ r.stage = "find" /\ r.op = "reassign"
        /\ reqs' = [reqs EXCEPT ![p].stage = "save",
                                ![p].existing = k # 0,
                                ![p].loaded = IF k # 0 THEN teams[k].faculties ELSE <<>>,
                                ![p].gone = FALSE,
                                ![p].stale = FALSE]
        /\ UNCHANGED <<appraisals, users, teams, year, nextId>>

\* team.save() of the entry.  It throws for a team that was found and is
\* gone, for a team whose faculties were modified after it was found when
\* this save modifies them too, and for a new team that does not validate
assignSave(p) ==
    LET r == reqs[p]
        department == r.req.department
        modified == r.existing /\ r.faculties # r.loaded
        thrown == IF r.existing THEN r.gone \/ (modified /\ r.stale)
                  ELSE department \notin DEPARTMENT
        others == IF modified THEN Outdate(reqs, department, r.verifier) ELSE reqs
    IN  /\ r.stage = "save" /\ r.op = "reassign"
        /\ IF thrown
           THEN /\ reqs' = [reqs EXCEPT ![p].stage = "done",
                                        ![p].code = INTERNAL_SERVER_ERROR,
                                        ![p].err = "internal"]
                /\ UNCHANGED teams
           ELSE /\ teams' = IF r.existing
                            THEN existingTeamSave(teams, r.verifier, department,
                                                  r.loaded, r.faculties)
                            ELSE newTeamSave(teams, r.verifier, department, r.faculties)
                /\ reqs' = [others EXCEPT ![p] = entryAfter(r)]
        /\ UNCHANGED <<appraisals, users, year, nextId>>

\* a new User document: the setters of the schema run on the values it is
\* given (userId and designation are trimmed, email is put in lower case
\* and trimmed)
userDocument(body) ==
    [body EXCEPT !.userId = trim(@), !.email = toLowerCase(trim(@)),
                 !.designation = trim(@)]

\* the validation of a new User document: the required strings are not
\* empty and the enums of the schema hold
userValidates(user) ==
    /\ user.userId # "" /\ user.email # ""
    /\ user.role \in ROLE
    /\ user.department \in DEPARTMENT
    /\ user.designation \in DESIGNATION
    /\ user.status \in STAKEHOLDER_STATUS

\* a request of the administration of users in flight
Admin(op, body, stage, r) ==
    [stage |-> stage, op |-> op, req |-> body, code |-> r.code, err |-> r.err]

\* POST /admin/create-user up to the answer of User.findOne({ userId }); the
\* filter is cast by the schema, so the userId is trimmed before it is
\* matched
AddUser(p, body) ==
    /\ reqs[p].stage = "idle"
    /\ reqs' = [reqs EXCEPT ![p] =
          IF \E f \in DOMAIN body : body[f] = ""
          THEN Admin("AddUser", body, "done", Response(BAD_REQUEST, "validation"))
          ELSE IF trim(body.userId) \in DOMAIN users
          THEN Admin("AddUser", body, "done", Response(CONFLICT, "conflict"))
          ELSE Admin("AddUser", body, "email", Response(0, "none"))]
    /\ UNCHANGED <<appraisals, users, teams, year, nextId>>

\* User.findOne({ email }), the email in lower case and trimmed
addUserEmail(p) ==
    LET r == reqs[p]
    IN  /\ r.stage = "email" /\ r.op = "AddUser"
        /\ reqs' = [reqs EXCEPT ![p] =
              IF \E u \in DOMAIN users : users[u].email = toLowerCase(trim(r.req.email))
              THEN [r EXCEPT !.stage = "done", !.code = CONFLICT, !.err = "conflict"]
              ELSE [r EXCEPT !.stage = "create"]]
        /\ UNCHANGED <<appraisals, users, teams, year, nextId>>

\* User.create: the document is built with the setters of the schema,
\* validated and inserted under the unique indexes of userId and email; a
\* failure of either is thrown and answered by the catch block
addUserCreate(p) ==
    LET r == reqs[p]
        user == userDocument(r.req)
    IN  /\ r.stage = "create" /\ r.op = "AddUser"
        /\ IF /\ userValidates(user)
              /\ user.userId \notin DOMAIN users
              /\ ~\E u \in DOMAIN users : users[u].email = user.email
           THEN /\ users' = users @@ (user.userId :>
                            [id |-> Cardinality(DOMAIN users) + 1, email |-> user.email,
                             department |-> user.department, role |-> user.role,
                             designation |-> user.designation, status |-> user.status])
                /\ reqs' = [reqs EXCEPT ![p].stage = "done", ![p].code = CREATED]
           ELSE /\ reqs' = [reqs EXCEPT ![p].stage = "done",
                                        ![p].code = INTERNAL_SERVER_ERROR,
                                        ![p].err = "internal"]
                /\ UNCHANGED users
        /\ UNCHANGED <<appraisals, teams, year, nextId>>

\* DELETE /admin/delete-user up to the answer of User.findOne({ userId })
deleteUser(p, body) ==
    /\ reqs[p].stage = "idle"
    /\ reqs' = [reqs EXCEPT ![p] =
          IF trim(body.userId) \notin DOMAIN users
          THEN Admin("deleteUser", body, "done", Response(NOT_FOUND, "not_found"))
          ELSE Admin("deleteUser", body, "inactive", Response(0, "none"))]
    /\ UNCHANGED <<appraisals, users, teams, year, nextId>>

\* user.save(): the user that was found is marked inactive instead of
\* being deleted
deleteUserSave(p) ==
    LET r == reqs[p]
    IN  /\ r.stage = "inactive" /\ r.op = "deleteUser"
        /\ users' = [users EXCEPT ![trim(r.req.userId)].status = "inactive"]
        /\ reqs' = [reqs EXCEPT ![p].stage = "done", ![p].code = OK]
        /\ UNCHANGED <<appraisals, teams, year, nextId>>
----------------------------------------------------------------------------
\* Requests: the identities, targets and bodies the model draws from

UserIds == {"u1", "u2"}

\* the identity a request carries: { userId, role }
Callers == [userId : UserIds, role : ROLE]

\* the userId a request names in its path
Targets == {"u1"}

\* the identities of the requests of the whole API: the owner, who is no
\* evaluator, and an evaluator, who is not the owner
ApiCallers == {[userId |-> "u1", role |-> "faculty"], [userId |-> "u2", role |-> "dean"]}

Marks == 1 .. MaxMark

PartABodies == {(<<"totalMarks">> :> 3)}

PartBBodies ==
    {(<<"papers", "sci", "count">> :> 2) @@ (<<"papers", "sci", "claimed">> :> 4)
        @@ (<<"papers", "sci", "proof">> :> "url") @@ (<<"totalClaimed">> :> 4),
     (<<"papers", "sci", "count">> :> 2) @@ (<<"papers", "sci", "claimed">> :> 4)
        @@ (<<"papers", "sci", "verified">> :> 4) @@ (<<"totalVerified">> :> 4)
        @@ (<<"papers", "sci", "amount">> :> 9),
     (<<"revenueTraining", "count">> :> 0 - 1)}

PartCBodies == {(<<"totalMarks">> :> 3) @@ (<<"verifiedMarks">> :> 3)}

PartDBodies ==
    {(<<"selfAwardedMarks">> :> 3),
     (<<"selfAwardedMarks">> :> 3) @@ (<<"deanMarks">> :> 5) @@ (<<"hodMarks">> :> 5)
        @@ (<<"directorMarks">> :> 5) @@ (<<"adminDeanMarks">> :> 5)
        @@ (<<"isMarkDean">> :> TRUE) @@ (<<"isMarkHOD">> :> TRUE)}

PartEBodies == {(<<"selfAwardedMarks">> :> 3) @@ (<<"evaluatorMarks">> :> 3)}

DeclarationBodies ==
    {[isAgreed |-> Bool(TRUE)], [isAgreed |-> Bool(FALSE)], [isAgreed |-> Str("yes")]}

EvaluatorBodies ==
    {[marks |-> Num(m)] : m \in Marks} \cup {[marks |-> Num(0 - 1)], [marks |-> Str("x")]}

\* verification payloads: nested objects, as the map from each leaf's key
\* path to its value
VerificationData ==
    {(<<"partB", "papers", "sci">> :> Num(m)) @@ (<<"partB", "revenueTraining">> :> Num(m))
        @@ (<<"partB", "papers", "esci">> :> Str("x"))
        @@ (<<"partB", "papers", "claimed">> :> Num(m))
        @@ (<<"partB", "grants", "research", "claimed">> :> Num(m))
        @@ (<<"partB", "totalClaimed">> :> Num(m)) : m \in Marks}
    \cup {(<<"partB", "totalVerified">> :> Num(m)) @@ (<<"partC", "verifiedMarks">> :> Num(m))
            @@ (<<"partE", "evaluatorMarks">> :> Num(m))
            @@ (<<"summary", "grandTotalVerified">> :> Num(m))
            @@ (<<"partB", "papers", "bogus">> :> Num(m))
            @@ (<<"partZ", "marks">> :> Num(m)) : m \in Marks}

VerifyBodies == {NoBody} \cup {[verificationData |-> d] : d \in VerificationData}

ApproveBodies == {NoBody, [grandTotalVerified |-> Str("x")], [grandTotalVerified |-> Num(7)]}

\* bodies of the earlier PUT /appraisal/:userId: new claims for a metric, a
\* status, and a body that names another user
UpdateBodies ==
    {(<<"userId">> :> "u1") @@ (<<"partB", "papers", "sci", "count">> :> 9)
        @@ (<<"partB", "papers", "sci", "claimed">> :> 9),
     (<<"userId">> :> "u1") @@ (<<"status">> :> "DRAFT"),
     (<<"userId">> :> "u2") @@ (<<"partB", "totalClaimed">> :> 9)
        @@ (<<"partB", "totalVerified">> :> 9) @@ (<<"partB", "papers", "sci", "proof">> :> "x")}

\* the requests that may be in flight together
Procs == 1 .. MaxRequests

\* the create requests the model follows: one that is answered without an
\* insert, or one that arrives while the year has a document left to create
CreateArrives(caller) ==
    \/ caller.userId \notin DOMAIN users
    \/ users[caller.userId].status # "active"
    \/ users[caller.userId].designation \notin ACADEMIC_CADRES
    \/ \E i \in DOMAIN appraisals :
          appraisals[i].userId = caller.userId /\ appraisals[i].appraisalYear = year
    \/ nextId <= MaxCreates * year

\* the inserts the model follows: those of the requests in flight while the
\* year had a document left to create
InsertFollows == nextId < MaxCreates * year + MaxRequests

----------------------------------------------------------------------------
\* The appraisal API, one request at a time: a request arrives when the one
\* before it has been answered

Init ==
    /\ appraisals = <<>>
    /\ users = ("u1" :> [status |-> "active", designation |-> "Professor"])
               @@ ("u2" :> [status |-> "inactive", designation |-> "Professor"])
    /\ teams = <<>>
    /\ year = 1
    /\ nextId = 1
    /\ reqs = [p \in Procs |-> Idle]

Next ==
    \/ \E c \in ApiCallers : CreateArrives(c) /\ createUser(1, c)
    \/ createFind(1)
    \/ InsertFollows /\ createInsert(1)
    \/ \E c \in ApiCallers, t \in Targets, b \in PartABodies : updatePartA(1, c, t, b)
    \/ \E c \in ApiCallers, t \in Targets, b \in PartBBodies : updatePartB(1, c, t, b)
    \/ \E c \in ApiCallers, t \in Targets, b \in PartCBodies : updatePartC(1, c, t, b)
    \/ \E c \in ApiCallers, t \in Targets, b \in PartDBodies : updatePartD(1, c, t, b)
    \/ \E c \in ApiCallers, t \in Targets, b \in PartEBodies : updatePartE(1, c, t, b)
    \/ \E c \in ApiCallers, t \in Targets, b \in EvaluatorBodies : evaluatorRead(1, c, t, b)
    \/ \E c \in ApiCallers, t \in Targets, b \in DeclarationBodies : declarationRead(1, c, t, b)
    \/ \E c \in ApiCallers, t \in Targets : submitRead(1, c, t)
    \/ documentSave(1)
    \/ \E c \in ApiCallers, t \in Targets, b \in VerifyBodies : verifyRead(1, c, t, b)
    \/ \E c \in ApiCallers, t \in Targets, b \in ApproveBodies : approveCheck(1, c, t, b)
    \/ \E c \in ApiCallers, t \in Targets : deleteRead(1, c, t)
    \/ applyWrite(1)
    \/ release(1)

Spec == Init /\ [][Next]_vars

\* the lifecycle requests, from every identity
NextLifecycle ==
    \/ \E c \in Callers : CreateArrives(c) /\ createUser(1, c)
    \/ createFind(1)
    \/ InsertFollows /\ createInsert(1)
    \/ \E c \in Callers, t \in Targets, b \in PartCBodies : updatePartC(1, c, t, b)
    \/ \E c \in Callers, t \in Targets, b \in DeclarationBodies : declarationRead(1, c, t, b)
    \/ \E c \in Callers, t \in Targets : submitRead(1, c, t)
    \/ documentSave(1)
    \/ \E c \in Callers, t \in Targets, b \in VerifyBodies : verifyRead(1, c, t, b)
    \/ \E c \in Callers, t \in Targets, b \in ApproveBodies : approveCheck(1, c, t, b)
    \/ \E c \in Callers, t \in Targets : deleteRead(1, c, t)
    \/ applyWrite(1)
    \/ release(1)

SpecLifecycle == Init /\ [][NextLifecycle]_vars

\* The earlier router of /appraisal (POST /, PUT /:userId, PATCH submit,
\* verify and approve, DELETE), one request at a time, from an empty store

\* bodies of POST /, of PATCH /:userId/submit and of DELETE /:userId
NamingBodies == {NoSets, (<<"userId">> :> "u1"), (<<"userId">> :> "u2")}

\* bodies of PUT /:userId that agree to the declaration, and that name the
\* evaluators' flags and marks of the later schema
FlagBodies ==
    {(<<"userId">> :> "u1") @@ (<<"declaration", "isAgreed">> :> TRUE),
     (<<"userId">> :> "u1") @@ (<<"partD", "isMarkDean">> :> TRUE)
        @@ (<<"partD", "isMarkHOD">> :> TRUE) @@ (<<"partD", "deanMarks">> :> 5)}

\* bodies of PATCH /:userId/verify: none, a verified mark, a claim, a mark
\* that does not cast, and another owner
AssignBodies ==
    {NoSets,
     (<<"verificationData", "partB", "papers", "sci", "verified">> :> MaxMark),
     (<<"verificationData", "partB", "papers", "sci", "claimed">> :> 9),
     (<<"verificationData", "partE", "evaluatorMarks">> :> "x"),
     (<<"verificationData", "userId">> :> "u2")}

\* bodies of PATCH /:userId/approve
WeightageBodies == {NoSets, (<<"adminWeightage">> :> 5)}

\* the create requests the model follows: those that arrive while there is
\* a document left to create
DocumentLeft == nextId <= MaxCreates * MaxYear

NextLegacy ==
    \/ \E c \in ApiCallers, b \in NamingBodies : DocumentLeft /\ createAppraisalUser(1, c, b)
    \/ createAppraisalFind(1)
    \/ createAppraisalSave(1)
    \/ \E c \in ApiCallers, t \in Targets, b \in UpdateBodies \cup FlagBodies :
          updateRead(1, c, t, b)
    \/ \E c \in ApiCallers, t \in Targets, b \in NamingBodies : submitAppraisalRead(1, c, t, b)
    \/ \E c \in ApiCallers, t \in Targets, b \in AssignBodies : verifyAppraisalRead(1, c, t, b)
    \/ \E c \in ApiCallers, t \in Targets, b \in WeightageBodies :
          approveAppraisalRead(1, c, t, b)
    \/ appraisalSave(1)
    \/ \E c \in ApiCallers, t \in Targets, b \in NamingBodies : deleteAppraisalRead(1, c, t, b)
    \/ deleteAppraisalOne(1)
    \/ release(1)

SpecLegacy == Init /\ [][NextLegacy]_vars

----------------------------------------------------------------------------
\* Approve requests in flight together

NextConc ==
    \/ \E p \in Procs, c \in ApiCallers : CreateArrives(c) /\ createUser(p, c)
    \/ \E p \in Procs : createFind(p)
    \/ \E p \in Procs : InsertFollows /\ createInsert(p)
    \/ \E p \in Procs, c \in ApiCallers, t \in Targets, b \in DeclarationBodies :
          declarationRead(p, c, t, b)
    \/ \E p \in Procs, c \in ApiCallers, t \in Targets : submitRead(p, c, t)
    \/ \E p \in Procs : documentSave(p)
    \/ \E p \in Procs, c \in ApiCallers, t \in Targets, b \in VerifyBodies :
          verifyRead(p, c, t, b)
    \/ \E p \in Procs, c \in ApiCallers, t \in Targets, b \in ApproveBodies :
          approveCheck(p, c, t, b)
    \/ \E p \in Procs : applyWrite(p)
    \/ \E p \in Procs : release(p)

SpecConc == Init /\ [][NextConc]_vars

----------------------------------------------------------------------------
\* The evaluator mark route, called by the owner and by every role

\* the owner, and a second user under each role of the system
EvaluatorCallers ==
    {[userId |-> "u1", role |-> "faculty"]} \cup [userId : {"u2"}, role : ROLE]

NextEvaluator ==
    \/ \E c \in EvaluatorCallers : CreateArrives(c) /\ createUser(1, c)
    \/ createFind(1)
    \/ InsertFollows /\ createInsert(1)
    \/ \E c \in EvaluatorCallers, t \in Targets, b \in PartDBodies : updatePartD(1, c, t, b)
    \/ \E c \in EvaluatorCallers, t \in Targets, b \in DeclarationBodies :
          declarationRead(1, c, t, b)
    \/ \E c \in EvaluatorCallers, t \in Targets : submitRead(1, c, t)
    \/ documentSave(1)
    \/ \E c \in EvaluatorCallers, t \in Targets, b \in EvaluatorBodies :
          evaluatorRead(1, c, t, b)
    \/ \E c \in EvaluatorCallers, t \in Targets, b \in ApproveBodies :
          approveCheck(1, c, t, b)
    \/ applyWrite(1)
    \/ release(1)

SpecEvaluator == Init /\ [][NextEvaluator]_vars

----------------------------------------------------------------------------
\* The appraisal API over more than one appraisal year

NextYears ==
    \/ \E c \in ApiCallers : CreateArrives(c) /\ createUser(1, c)
    \/ createFind(1)
    \/ InsertFollows /\ createInsert(1)
    \/ \E c \in ApiCallers, t \in Targets, b \in PartABodies : updatePartA(1, c, t, b)
    \/ \E c \in ApiCallers, t \in Targets, b \in DeclarationBodies : declarationRead(1, c, t, b)
    \/ \E c \in ApiCallers, t \in Targets : submitRead(1, c, t)
    \/ documentSave(1)
    \/ \E c \in ApiCallers, t \in Targets, b \in VerifyBodies : verifyRead(1, c, t, b)
    \/ \E c \in ApiCallers, t \in Targets, b \in ApproveBodies : approveCheck(1, c, t, b)
    \/ \E c \in ApiCallers, t \in Targets : deleteRead(1, c, t)
    \/ applyWrite(1)
    \/ release(1)
    \/ newYear

SpecYears == Init /\ [][NextYears]_vars

----------------------------------------------------------------------------
\* Create requests in flight together

NextCreate ==
    \/ \E p \in Procs, c \in ApiCallers : CreateArrives(c) /\ createUser(p, c)
    \/ \E p \in Procs : createFind(p)
    \/ \E p \in Procs : InsertFollows /\ createInsert(p)
    \/ \E p \in Procs, c \in ApiCallers, t \in Targets : deleteRead(p, c, t)
    \/ \E p \in Procs : applyWrite(p)
    \/ \E p \in Procs : release(p)
    \/ newYear

SpecCreate == Init /\ [][NextCreate]_vars

----------------------------------------------------------------------------
\* The committee routes and the administration of users, one request at a
\* time

\* the users the committee requests name: five faculty members of the
\* computer department, two members of another department, the head of the
\* computer department, and an id no user has
Member(id, userId, department, role) ==
    userId :> [id |-> id, email |-> userId, department |-> department, role |-> role,
               designation |-> "Professor", status |-> "active"]

VerifierIds == {"v1", "v2", "c1", "zz"}

\* the sequences over a set of at most n members
SeqsUpTo(S, n) == UNION {[1 .. k -> S] : k \in 0 .. n}

RebuildBodies ==
    [department : {"computer", "it", ""},
     committee_ids : SeqsUpTo(VerifierIds, MaxVerifiers),
     deleted_verifiers : {<<>>, <<"v1">>}]
    \cup {[department |-> "computer", deleted_verifiers |-> <<>>],
          [department |-> "physics", committee_ids |-> <<"v1">>, deleted_verifiers |-> <<>>]}

Assignments ==
    {<<>>,
     << <<"v1", <<"f1", "f2">> >> >>,
     << <<"v1 (V One)", <<"f2 (F Two)", "f3">> >>, <<"v2", <<"f3", "zz">> >> >>,
     << <<"c1", <<"f1">> >> >>,
     << <<"zz", <<"f1">> >>, <<"v2", <<"v1">> >> >>}

ReassignBodies ==
    [department : {"computer", ""}, assignments : Assignments]
    \cup {[department |-> "computer"],
          [department |-> "physics", assignments |-> << <<"v1", <<"f1">> >> >>]}

AddUserBodies ==
    [userId : {"f6", "f1"}, email : {"f6"}, department : {"computer", "physics"},
     role : {"faculty"}, designation : {"Professor"}, status : {"active"}]
    \cup {[userId |-> "f6", email |-> "", department |-> "computer", role |-> "faculty",
           designation |-> "Professor", status |-> "active"],
          [userId |-> "f6", email |-> "f1", department |-> "computer", role |-> "faculty",
           designation |-> "Professor", status |-> "active"],
          [userId |-> " f1", email |-> "f7", department |-> "computer", role |-> "faculty",
           designation |-> "Professor", status |-> "active"],
          [userId |-> "f7 ", email |-> " F1 ", department |-> "computer", role |-> "faculty",
           designation |-> "Professor", status |-> "active"],
          [userId |-> " f8 ", email |-> "F8", department |-> "computer", role |-> "faculty",
           designation |-> "Professor ", status |-> "active"],
          [userId |-> " ", email |-> "f9", department |-> "computer", role |-> "faculty",
           designation |-> "Professor", status |-> "active"]}

DeleteUserBodies == [userId : {"f5", "zz"}]

InitCommittee ==
    /\ appraisals = <<>>
    /\ users = Member(1, "f1", "computer", "faculty") @@ Member(2, "f2", "computer", "faculty")
               @@ Member(3, "f3", "computer", "faculty") @@ Member(4, "f4", "computer", "faculty")
               @@ Member(5, "f5", "computer", "faculty") @@ Member(6, "v1", "it", "faculty")
               @@ Member(7, "v2", "it", "hod") @@ Member(8, "c1", "computer", "hod")
    /\ teams = <<>>
    /\ year = 1
    /\ nextId = 1
    /\ reqs = [p \in Procs |-> Idle]

\* the committee route alone
NextRebuild ==
    \/ \E b \in RebuildBodies : rebuildArrive(1, b)
    \/ rebuildRoster(1)
    \/ rebuildDeleted(1)
    \/ rebuildRemove(1)
    \/ rebuildKept(1)
    \/ rebuildPurge(1)
    \/ rebuildFind(1)
    \/ rebuildSave(1)
    \/ rebuildPopulate(1)
    \/ release(1)

SpecRebuild == InitCommittee /\ [][NextRebuild]_vars

\* the committee requests for the computer department that name no verifier
\* to remove
ComputerBodies ==
    {b \in RebuildBodies : b.department = "computer" /\ b.deleted_verifiers = <<>>}

\* the committee routes and the administration of users
NextCommittee ==
    \/ \E b \in ComputerBodies : rebuildArrive(1, b)
    \/ rebuildRoster(1)
    \/ rebuildKept(1)
    \/ rebuildPurge(1)
    \/ rebuildFind(1)
    \/ rebuildSave(1)
    \/ rebuildPopulate(1)
    \/ \E b \in ReassignBodies : assignFacultiesToCommittee(1, b)
    \/ assignVerifier(1)
    \/ assignFaculties(1)
    \/ assignFind(1)
    \/ assignSave(1)
    \/ \E b \in AddUserBodies : AddUser(1, b)
    \/ addUserEmail(1)
    \/ addUserCreate(1)
    \/ \E b \in DeleteUserBodies : deleteUser(1, b)
    \/ deleteUserSave(1)
    \/ release(1)

SpecCommittee == InitCommittee /\ [][NextCommittee]_vars

----------------------------------------------------------------------------
\* The owner's and the evaluators' requests on one record in flight together

\* the owner's section updates in flight together
NextSections ==
    \/ \E p \in Procs, c \in ApiCallers : CreateArrives(c) /\ createUser(p, c)
    \/ \E p \in Procs : createFind(p)
    \/ \E p \in Procs : InsertFollows /\ createInsert(p)
    \/ \E p \in Procs, c \in ApiCallers, t \in Targets, b \in PartABodies :
          updatePartA(p, c, t, b)
    \/ \E p \in Procs, c \in ApiCallers, t \in Targets, b \in PartCBodies :
          updatePartC(p, c, t, b)
    \/ \E p \in Procs : applyWrite(p)
    \/ \E p \in Procs : release(p)

SpecSections == Init /\ [][NextSections]_vars

\* the requests on one record from its creation to its approval and after
NextFrozen ==
    \/ \E p \in Procs, c \in ApiCallers : CreateArrives(c) /\ createUser(p, c)
    \/ \E p \in Procs : createFind(p)
    \/ \E p \in Procs : InsertFollows /\ createInsert(p)
    \/ \E p \in Procs, c \in ApiCallers, t \in Targets : submitRead(p, c, t)
    \/ \E p \in Procs : documentSave(p)
    \/ \E p \in Procs, c \in ApiCallers, t \in Targets, b \in PartABodies :
          updatePartA(p, c, t, b)
    \/ \E p \in Procs, c \in ApiCallers, t \in Targets :
          declarationRead(p, c, t, [isAgreed |-> Bool(TRUE)])
    \/ \E p \in Procs, c \in ApiCallers, t \in Targets :
          evaluatorRead(p, c, t, [marks |-> Num(MaxMark)])
    \/ \E p \in Procs, c \in ApiCallers, t \in Targets :
          verifyRead(p, c, t, NoBody)
    \/ \E p \in Procs, c \in ApiCallers, t \in Targets :
          approveCheck(p, c, t, NoBody)
    \/ \E p \in Procs, c \in ApiCallers, t \in Targets : deleteRead(p, c, t)
    \/ \E p \in Procs : applyWrite(p)
    \/ \E p \in Procs : release(p)

SpecFrozen == Init /\ [][NextFrozen]_vars

----------------------------------------------------------------------------
\* createVerificationCommitteeByDept over a store whose calls can fail

PartialBodies ==
    [department : {"computer"},
     committee_ids : SeqsUpTo({"v1", "v2"}, MaxVerifiers),
     deleted_verifiers : {<<>>, <<"v1">>}]

\* the rebuilds of one administrator, one request after the other, over a
\* store whose calls can fail
NextPartial ==
    \/ \E b \in PartialBodies : rebuildArrive(1, b)
    \/ \E b \in PartialBodies : rebuildFails(1, b)
    \/ rebuildRoster(1)
    \/ rebuildDeleted(1)
    \/ rebuildRemove(1)
    \/ rebuildKept(1)
    \/ rebuildPurge(1)
    \/ rebuildFind(1)
    \/ rebuildSave(1)
    \/ rebuildPopulate(1)
    \/ storeFails(1)
    \/ release(1)

SpecPartial == InitCommittee /\ [][NextPartial]_vars

----------------------------------------------------------------------------
\* submitAppraisal among the other requests in flight

\* the owner's and the evaluators' requests on one record in flight together
NextOverlap ==
    \/ \E p \in Procs, c \in ApiCallers : CreateArrives(c) /\ createUser(p, c)
    \/ \E p \in Procs : createFind(p)
    \/ \E p \in Procs : InsertFollows /\ createInsert(p)
    \/ \E p \in Procs, c \in ApiCallers, t \in Targets :
          declarationRead(p, c, t, [isAgreed |-> Bool(TRUE)])
    \/ \E p \in Procs, c \in ApiCallers, t \in Targets : submitRead(p, c, t)
    \/ \E p \in Procs : documentSave(p)
    \/ \E p \in Procs, c \in ApiCallers, t \in Targets, b \in PartDBodies :
          updatePartD(p, c, t, b)
    \/ \E p \in Procs, c \in ApiCallers, t \in Targets : verifyRead(p, c, t, NoBody)
    \/ \E p \in Procs, c \in ApiCallers, t \in Targets : approveCheck(p, c, t, NoBody)
    \/ \E p \in Procs, c \in ApiCallers, t \in Targets : deleteRead(p, c, t)
    \/ \E p \in Procs : applyWrite(p)
    \/ \E p \in Procs : release(p)

SpecOverlap == Init /\ [][NextOverlap]_vars

----------------------------------------------------------------------------
\* verifyAppraisal over payloads of every shape

\* payloads beside those of VerificationData: an empty object, sections
\* that are not objects, and metrics given as objects
OddVerificationData ==
    {<<>>,
     (<<"partB">> :> Str("x")) @@ (<<"partC">> :> Num(MaxMark))
        @@ (<<"partE">> :> Bool(TRUE)) @@ (<<"summary">> :> Str("x")),
     (<<"partB", "papers", "sci", "verified">> :> Num(MaxMark))
        @@ (<<"partB", "books">> :> Num(MaxMark)) @@ (<<"partB", "placement">> :> Bool(TRUE))
        @@ (<<"partB", "totalVerified">> :> Str("x"))
        @@ (<<"partC", "verifiedMarks">> :> Num(MaxMark))}

PayloadBodies == VerifyBodies \cup {[verificationData |-> d] : d \in OddVerificationData}

\* the verifications of one evaluator, one request after the other
NextVerify ==
    \/ \E c \in ApiCallers : CreateArrives(c) /\ createUser(1, c)
    \/ createFind(1)
    \/ InsertFollows /\ createInsert(1)
    \/ \E c \in ApiCallers, t \in Targets :
          declarationRead(1, c, t, [isAgreed |-> Bool(TRUE)])
    \/ \E c \in ApiCallers, t \in Targets : submitRead(1, c, t)
    \/ documentSave(1)
    \/ \E c \in ApiCallers, t \in Targets, b \in PayloadBodies : verifyRead(1, c, t, b)
    \/ applyWrite(1)
    \/ release(1)

SpecVerify == Init /\ [][NextVerify]_vars

\* the payloads whose marks are the highest mark
MarkBodies ==
    {NoBody}
    \cup {[verificationData |-> d] :
            d \in {e \in VerificationData :
                      \A q \in DOMAIN e : IsNumber(e[q]) => e[q].num = MaxMark}}

\* the store after u1 created a record, agreed to the declaration and
\* submitted
InitSubmitted ==
    /\ appraisals = <<[id |-> 1, userId |-> "u1", appraisalYear |-> 1, role |-> "faculty",
                       designation |-> "Professor",
                       doc |-> (<<"status">> :> "SUBMITTED")
                               @@ (<<"declaration", "isAgreed">> :> TRUE)
                               @@ (<<"declaration", "signatureDate">> :> 1)]>>
    /\ users = ("u1" :> [status |-> "active", designation |-> "Professor"])
               @@ ("u2" :> [status |-> "inactive", designation |-> "Professor"])
    /\ teams = <<>>
    /\ year = 1
    /\ nextId = 2
    /\ reqs = [p \in Procs |-> Idle]

\* the verifications of one submitted record in flight together
NextMarks ==
    \/ \E p \in Procs, c \in ApiCallers, t \in Targets, b \in MarkBodies :
          verifyRead(p, c, t, b)
    \/ \E p \in Procs : applyWrite(p)
    \/ \E p \in Procs : release(p)

SpecMarks == InitSubmitted /\ [][NextMarks]_vars

----------------------------------------------------------------------------
\* updatePartD over the mappings an owner can send

\* the keys the mappings are made of: faculty fields, a rollup, evaluator
\* fields and a key that is not of the schema
PartDKeys ==
    {"selfAwardedMarks", "portfolioType", "totalMarks", "deanMarks", "isMarkDean", "bogus"}

PartDValue(k) ==
    CASE k = "portfolioType" -> "both"
      [] k = "isMarkDean" -> TRUE
      [] OTHER -> 3

PartDMappings == {[q \in {<<k>> : k \in S} |-> PartDValue(q[1])] : S \in SUBSET PartDKeys}

NextPartD ==
    \/ \E c \in ApiCallers : CreateArrives(c) /\ createUser(1, c)
    \/ createFind(1)
    \/ InsertFollows /\ createInsert(1)
    \/ \E c \in ApiCallers, t \in Targets, b \in PartDMappings : updatePartD(1, c, t, b)
    \/ applyWrite(1)
    \/ release(1)

SpecPartD == Init /\ [][NextPartD]_vars

----------------------------------------------------------------------------
\* createVerificationCommitteeByDept over rosters and committees of every size

FacultyNames == <<"f1", "f2", "f3", "f4", "f5", "f6", "f7", "f8">>
VerifierNames == <<"w1", "w2", "w3", "w4", "w5", "w6">>

\* the place of a name in a list of names
IndexOf(names, u) == CHOOSE i \in DOMAIN names : names[i] = u

\* the users of a store with n faculty in the computer department, its head
\* h1, and the faculty of another department the committee is drawn from
SliceUsers(n) ==
    [u \in {FacultyNames[i] : i \in 1 .. n} \cup {"h1"}
           \cup {VerifierNames[j] : j \in 1 .. MaxCommittee} |->
        IF u = "h1"
        THEN [id |-> Len(FacultyNames) + 1, email |-> u, department |-> "computer",
              role |-> "hod", designation |-> "Professor", status |-> "active"]
        ELSE IF u \in Range(FacultyNames)
        THEN [id |-> IndexOf(FacultyNames, u), email |-> u, department |-> "computer",
              role |-> "faculty", designation |-> "Professor", status |-> "active"]
        ELSE [id |-> Len(FacultyNames) + 1 + IndexOf(VerifierNames, u), email |-> u,
              department |-> "it", role |-> "faculty", designation |-> "Professor",
              status |-> "active"]]

InitSlices ==
    /\ appraisals = <<>>
    /\ users \in {SliceUsers(n) : n \in 0 .. MaxRoster}
    /\ teams = <<>>
    /\ year = 1
    /\ nextId = 1
    /\ reqs = [p \in Procs |-> Idle]

\* the requests that list a set of the users once each
SliceBodies ==
    [department : {"computer"},
     committee_ids : {InIdOrder(SliceUsers(0), S) :
                        S \in SUBSET ({VerifierNames[j] : j \in 1 .. MaxCommittee}
                                        \cup {"h1"})},
     deleted_verifiers : {<<>>}]

NextSlices ==
    \/ \E b \in SliceBodies : rebuildArrive(1, b)
    \/ rebuildRoster(1)
    \/ rebuildKept(1)
    \/ rebuildPurge(1)
    \/ rebuildFind(1)
    \/ rebuildSave(1)
    \/ rebuildPopulate(1)
    \/ release(1)

SpecSlices == InitSlices /\ [][NextSlices]_vars

----------------------------------------------------------------------------
\* every operation that follows the create, on a record whose requests
\* name the identity fields

\* a part A body and a verification payload that carry the identity fields
\* beside a value of their own
IdentityBodies ==
    {(<<"totalMarks">> :> 3) @@ (<<"userId">> :> "u2") @@ (<<"appraisalYear">> :> 2)
        @@ (<<"role">> :> "dean") @@ (<<"designation">> :> "Dean"),
     (<<"courses">> :> <<[code |-> "CS101", semester |-> "I"]>>) @@ (<<"totalMarks">> :> "3")
        @@ (<<"phdScholar">> :> "yes") @@ (<<"role">> :> "dean"),
     (<<"totalMarks">> :> "x") @@ (<<"role">> :> "dean")}

IdentityPayloads ==
    {[verificationData |->
        (<<"userId">> :> Str("u2")) @@ (<<"appraisalYear">> :> Num(2))
        @@ (<<"role">> :> Str("dean")) @@ (<<"designation">> :> Str("Dean"))
        @@ (<<"partC", "verifiedMarks">> :> Num(MaxMark))]}

\* the life of one record, request after request
NextIdentity ==
    \/ \E c \in ApiCallers : CreateArrives(c) /\ createUser(1, c)
    \/ createFind(1)
    \/ InsertFollows /\ createInsert(1)
    \/ \E c \in ApiCallers, t \in Targets, b \in IdentityBodies : updatePartA(1, c, t, b)
    \/ \E c \in ApiCallers, t \in Targets, b \in PartDBodies : updatePartD(1, c, t, b)
    \/ \E c \in ApiCallers, t \in Targets, b \in DeclarationBodies :
          declarationRead(1, c, t, b)
    \/ \E c \in ApiCallers, t \in Targets : submitRead(1, c, t)
    \/ documentSave(1)
    \/ \E c \in ApiCallers, t \in Targets, b \in EvaluatorBodies : evaluatorRead(1, c, t, b)
    \/ \E c \in ApiCallers, t \in Targets, b \in IdentityPayloads : verifyRead(1, c, t, b)
    \/ \E c \in ApiCallers, t \in Targets : approveCheck(1, c, t, NoBody)
    \/ applyWrite(1)
    \/ release(1)

SpecIdentity == Init /\ [][NextIdentity]_vars

----------------------------------------------------------------------------
\* requests in flight together on the records of a user who has one per
\* appraisal year

NextKey ==
    \/ \E p \in Procs, c \in ApiCallers : CreateArrives(c) /\ createUser(p, c)
    \/ \E p \in Procs : createFind(p)
    \/ \E p \in Procs : InsertFollows /\ createInsert(p)
    \/ newYear
    \/ \E p \in Procs, c \in ApiCallers, t \in Targets :
          declarationRead(p, c, t, [isAgreed |-> Bool(TRUE)])
    \/ \E p \in Procs, c \in ApiCallers, t \in Targets : submitRead(p, c, t)
    \/ \E p \in Procs : documentSave(p)
    \/ \E p \in Procs, c \in ApiCallers, t \in Targets : verifyRead(p, c, t, NoBody)
    \/ \E p \in Procs, c \in ApiCallers, t \in Targets, b \in PartABodies :
          updatePartA(p, c, t, b)
    \/ \E p \in Procs, c \in ApiCallers, t \in Targets : approveCheck(p, c, t, NoBody)
    \/ \E p \in Procs, c \in ApiCallers, t \in Targets : deleteRead(p, c, t)
    \/ \E p \in Procs : applyWrite(p)
    \/ \E p \in Procs : release(p)

SpecKey == Init /\ [][NextKey]_vars

----------------------------------------------------------------------------
\* the evaluators of one submitted record entering their Part D marks
\* together

\* a dean and a head of department
MarkCallers == [userId : {"u2"}, role : {"dean", "hod"}]

\* the marks of the evaluators' requests
EnteredMarks == {[marks |-> Num(m)] : m \in 1 .. MaxMark + 1}

NextEntry ==
    \/ \E p \in Procs, c \in MarkCallers, t \in Targets, b \in EnteredMarks :
          evaluatorRead(p, c, t, b)
    \/ \E p \in Procs : applyWrite(p)
    \/ \E p \in Procs : release(p)

SpecEntry == InitSubmitted /\ [][NextEntry]_vars

----------------------------------------------------------------------------
\* the declaration and the submit of one record in flight together

\* the owner agrees, or takes the agreement back
AgreementBodies == {[isAgreed |-> Bool(b)] : b \in BOOLEAN}

NextDeclaration ==
    \/ \E p \in Procs, c \in ApiCallers : CreateArrives(c) /\ createUser(p, c)
    \/ \E p \in Procs : createFind(p)
    \/ \E p \in Procs : InsertFollows /\ createInsert(p)
    \/ \E p \in Procs, c \in ApiCallers, t \in Targets, b \in AgreementBodies :
          declarationRead(p, c, t, b)
    \/ \E p \in Procs, c \in ApiCallers, t \in Targets : submitRead(p, c, t)
    \/ \E p \in Procs : documentSave(p)
    \/ \E p \in Procs, c \in ApiCallers, t \in Targets : verifyRead(p, c, t, NoBody)
    \/ \E p \in Procs, c \in ApiCallers, t \in Targets : approveCheck(p, c, t, NoBody)
    \/ \E p \in Procs : applyWrite(p)
    \/ \E p \in Procs : release(p)

SpecDeclaration == Init /\ [][NextDeclaration]_vars

----------------------------------------------------------------------------
\* rebuilds and reassigns of one department in flight together

\* committees of the department computer, no verifier deleted
TogetherBodies ==
    [department : {"computer"},
     committee_ids : {<<"v1">>, <<"v1", "v2">>},
     deleted_verifiers : {<<>>}]

\* a reassign of the first verifier
TogetherAssignments ==
    {[department |-> "computer", assignments |-> << <<"v1", <<"f1">> >> >>]}

\* requests arrive while the store holds no more rows than a committee has
\* verifiers
NextTogether ==
    \/ \E p \in Procs, b \in TogetherBodies :
          Len(teams) <= MaxVerifiers /\ rebuildArrive(p, b)
    \/ \E p \in Procs : rebuildRoster(p)
    \/ \E p \in Procs : rebuildKept(p)
    \/ \E p \in Procs : rebuildPurge(p)
    \/ \E p \in Procs : rebuildFind(p)
    \/ \E p \in Procs : rebuildSave(p)
    \/ \E p \in Procs : rebuildPopulate(p)
    \/ \E p \in Procs, b \in TogetherAssignments :
          Len(teams) <= MaxVerifiers /\ assignFacultiesToCommittee(p, b)
    \/ \E p \in Procs : assignVerifier(p)
    \/ \E p \in Procs : assignFaculties(p)
    \/ \E p \in Procs : assignFind(p)
    \/ \E p \in Procs : assignSave(p)
    \/ \E p \in Procs : release(p)

SpecTogether == InitCommittee /\ [][NextTogether]_vars
----------------------------------------------------------------------------
\* Every route of the appraisal API, called by the owner and by evaluators

\* the owner, and a second user as the dean and as the head of department
FlagCallers ==
    {[userId |-> "u1", role |-> "faculty"], [userId |-> "u2", role |-> "dean"],
     [userId |-> "u2", role |-> "hod"]}

NextFlags ==
    \/ \E c \in FlagCallers : CreateArrives(c) /\ createUser(1, c)
    \/ createFind(1)
    \/ InsertFollows /\ createInsert(1)
    \/ \E c \in FlagCallers, t \in Targets, b \in PartABodies : updatePartA(1, c, t, b)
    \/ \E c \in FlagCallers, t \in Targets, b \in PartBBodies : updatePartB(1, c, t, b)
    \/ \E c \in FlagCallers, t \in Targets, b \in PartCBodies : updatePartC(1, c, t, b)
    \/ \E c \in FlagCallers, t \in Targets, b \in PartDBodies : updatePartD(1, c, t, b)
    \/ \E c \in FlagCallers, t \in Targets, b \in PartEBodies : updatePartE(1, c, t, b)
    \/ \E c \in FlagCallers, t \in Targets, b \in EvaluatorBodies :
          evaluatorRead(1, c, t, b)
    \/ \E c \in FlagCallers, t \in Targets, b \in DeclarationBodies :
          declarationRead(1, c, t, b)
    \/ \E c \in FlagCallers, t \in Targets : submitRead(1, c, t)
    \/ documentSave(1)
    \/ \E c \in FlagCallers, t \in Targets, b \in VerifyBodies : verifyRead(1, c, t, b)
    \/ \E c \in FlagCallers, t \in Targets, b \in ApproveBodies :
          approveCheck(1, c, t, b)
    \/ \E c \in FlagCallers, t \in Targets : deleteRead(1, c, t)
    \/ applyWrite(1)
    \/ release(1)

SpecFlags == Init /\ [][NextFlags]_vars

----------------------------------------------------------------------------
\* Properties of the appraisal API

\* no request answered yet
NoRequest ==
    [op |-> "none", caller |-> [userId |-> "", role |-> ""], target |-> "", req |-> NoBody,
     before |-> <<>>, code |-> 0, err |-> "none", current |-> ""]

\* where requests are made one at a time, in the first place: the request
\* that has just been answered, with its answer; the store a step leaves
\* with last' is the store the request was answered over
last == IF reqs[1].stage = "done" THEN reqs[1] ELSE NoRequest

\* no request is between two of its store calls
Quiet == \A p \in Procs : reqs[p].stage \in {"idle", "done"}

\* the leaves a faculty member supplies for a metric, and their total
FacultyLeaf(p) ==
    /\ p[1] = "partB"
    /\ p[Len(p)] \in {"count", "amount", "proof", "claimed", "totalClaimed"}

\* the paths either of two documents holds a value for
Stored(doc1, doc2) == DOMAIN doc1 \cup DOMAIN doc2

\* the leaves and totals that hold verified marks
VerifiedLeaves ==
    {p \in PartBPaths : p[Len(p)] = "verified"}
    \cup {<<"partB", "totalVerified">>, <<"partC", "verifiedMarks">>,
          <<"summary", "grandTotalVerified">>}

\* a status change of one record and the operation of the completed request
LegalStatusChange(from, to, op) ==
    \/ to = from
    \/ from = "DRAFT" /\ to = "SUBMITTED" /\ op = "submit"
    \/ from = "SUBMITTED" /\ to = "VERIFIED" /\ op = "verify"
    \/ from = "VERIFIED" /\ to = "APPROVED" /\ op = "approve"

\* C1: over any sequence of completed requests, every change of a record's
\* status is Draft->Submitted by submit, Submitted->Verified by verify or
\* Verified->Approved by approve; nothing skips a state, moves backward or
\* changes the status of an Approved record.
C1_StatusChangesAreLifecycleSteps ==
    [][\A i \in DOMAIN appraisals : \A j \in DOMAIN appraisals' :
          appraisals[i].id = appraisals'[j].id
          => LegalStatusChange(Status(appraisals[i]), Status(appraisals'[j]), last'.op)]_vars

\* a record went through all three transitions, the last one just now
C1_Witness ==
    /\ last.op = "approve"
    /\ last.code = OK
    /\ \E i \in DOMAIN appraisals :
          /\ Status(appraisals[i]) = "APPROVED"
          /\ Get(appraisals[i].doc, <<"declaration", "signatureDate">>) # 0

\* C4: a submit by the owner on an existing Draft record whose
\* declaration.isAgreed is not true fails with the declaration-required
\* error, whatever the other fields hold, and changes nothing of the record.
C4_SubmitNeedsDeclaration ==
    [][\A c \in ApiCallers, t \in Targets :
          (/\ last'.op = "submit"
           /\ last'.caller = c /\ last'.target = t
           /\ c.userId = t
           /\ FindIndex(appraisals, t) # 0
           /\ Status(appraisals[FindIndex(appraisals, t)]) = "DRAFT"
           /\ Get(appraisals[FindIndex(appraisals, t)].doc, <<"declaration", "isAgreed">>) # TRUE)
          => /\ last'.code = BAD_REQUEST
             /\ last'.err = "declaration_required"
             /\ appraisals' = appraisals]_vars

\* a submit was refused for the declaration on a Draft record with sections
\* filled in; the record is still a Draft without signature date
C4_Witness ==
    /\ last.op = "submit"
    /\ last.err = "declaration_required"
    /\ \E i \in DOMAIN appraisals :
          /\ Status(appraisals[i]) = "DRAFT"
          /\ Get(appraisals[i].doc, <<"partB", "papers", "sci", "claimed">>) = 4
          /\ Get(appraisals[i].doc, <<"partD", "selfAwardedMarks">>) = 3
          /\ Get(appraisals[i].doc, <<"declaration", "signatureDate">>) = 0

\* C6: a verified leaf of a record (partB.<category>.<metric>.verified,
\* partB.totalVerified, partC.verifiedMarks, summary.grandTotalVerified)
\* takes a new value only in a verify or approve request; no owner request,
\* updatePartB or updatePartC included, sets one.
C6_VerifiedWrittenOnlyByEvaluators ==
    [][\A i \in DOMAIN appraisals : \A j \in DOMAIN appraisals' :
          appraisals[i].id = appraisals'[j].id
          => \A p \in Stored(appraisals[i].doc, appraisals'[j].doc) \cap VerifiedLeaves :
                Get(appraisals'[j].doc, p) # Get(appraisals[i].doc, p)
                => last'.op \in {"verify", "approve"}]_vars

\* the verification payload of a verify request body, as its leaves
Payload(body) ==
    IF "verificationData" \in DOMAIN body THEN body.verificationData ELSE <<>>

\* the leaf of the record a payload leaf is the verified mark of: the
\* verified leaf of the metric it names, or the total of the same path
MarkedLeaf(p) ==
    IF Append(p, "verified") \in VerifiedLeaves THEN Append(p, "verified") ELSE p

\* the leaves of the record that hold marks given in verification
MarkLeaves == VerifiedLeaves \cup {<<"partE", "evaluatorMarks">>}

\* C7: after a successful verify, the verified field of every metric leaf
\* the payload gives a number for equals that number, and every verified
\* field the payload gives no number for keeps its value (nothing is zeroed).
C7_VerifyWritesPayloadLeavesOnly ==
    [][\A c \in ApiCallers, t \in Targets :
          (last'.op = "verify" /\ last'.code = OK /\ last'.caller = c /\ last'.target = t)
          => LET i == FindIndex(appraisals, t)
                 data == Payload(last'.req)
                 given == {p \in DOMAIN data : IsNumber(data[p]) /\ MarkedLeaf(p) \in MarkLeaves}
             IN  /\ \A p \in given : Get(appraisals'[i].doc, MarkedLeaf(p)) = data[p].num
                 /\ \A q \in MarkLeaves \ {MarkedLeaf(p) : p \in given} :
                       Get(appraisals'[i].doc, q) = Get(appraisals[i].doc, q)]_vars

\* a verify wrote the payload's mark for papers.sci and kept the total the
\* payload did not name
C7_Witness ==
    /\ last.op = "verify"
    /\ last.code = OK
    /\ <<"partB", "papers", "sci">> \in DOMAIN Payload(last.req)
    /\ \E i \in DOMAIN appraisals :
          /\ Status(appraisals[i]) = "VERIFIED"
          /\ Get(appraisals[i].doc, <<"partB", "papers", "sci", "verified">>) = 1
          /\ Get(appraisals[i].doc, <<"partB", "revenueTraining", "verified">>) = 1
          /\ Get(appraisals[i].doc, <<"partB", "totalVerified">>) = 4

\* C8: whatever the verification payload holds, verify leaves every
\* claimed, count, amount and proof leaf of every record as it was.
C8_VerifyKeepsFacultyLeaves ==
    [][\A c \in ApiCallers, t \in Targets :
          (last'.op = "verify" /\ last'.caller = c /\ last'.target = t)
          => /\ DOMAIN appraisals' = DOMAIN appraisals
             /\ \A i \in DOMAIN appraisals :
                   \A p \in Stored(appraisals[i].doc, appraisals'[i].doc) :
                       FacultyLeaf(p) => Get(appraisals'[i].doc, p) = Get(appraisals[i].doc, p)]_vars

\* a verify whose payload names claimed leaves went through and the record
\* holds the owner's claim
C8_Witness ==
    /\ last.op = "verify"
    /\ last.code = OK
    /\ <<"partB", "grants", "research", "claimed">> \in DOMAIN Payload(last.req)
    /\ \E i \in DOMAIN appraisals :
          /\ Get(appraisals[i].doc, <<"partB", "papers", "sci", "claimed">>) = 4
          /\ Get(appraisals[i].doc, <<"partB", "papers", "sci", "count">>) = 2
          /\ Get(appraisals[i].doc, <<"partB", "papers", "sci", "proof">>) = "url"
          /\ Get(appraisals[i].doc, <<"partB", "totalClaimed">>) = 4

\* C9: applying a verification payload to a record twice gives the record
\* that applying it once gives.
C9_VerifyMergeIdempotent ==
    \A i \in DOMAIN appraisals : \A b \in VerifyBodies :
        verifyMerge(verifyMerge(appraisals[i].doc, b), b) = verifyMerge(appraisals[i].doc, b)

\* a Submitted record that holds marks other than the ones a payload gives,
\* so that a merge changes it
C9_Witness ==
    \E i \in DOMAIN appraisals : \E b \in VerifyBodies :
        /\ Status(appraisals[i]) = "SUBMITTED"
        /\ Get(appraisals[i].doc, <<"partB", "totalVerified">>) = 4
        /\ <<"partB", "totalVerified">> \in DOMAIN Payload(b)
        /\ verifyMerge(appraisals[i].doc, b) # appraisals[i].doc
        /\ Get(verifyMerge(appraisals[i].doc, b), <<"partB", "totalVerified">>) = 1

\* C10: after a Part D update by the owner, none of deanMarks, hodMarks,
\* directorMarks, adminDeanMarks, isMarkDean and isMarkHOD holds a value
\* taken from the payload: each one the payload carries reads as before the
\* update or as the schema default.
C10_PartDDropsEvaluatorKeys ==
    [][\A c \in ApiCallers, t \in Targets :
          (last'.op = "updatePartD" /\ last'.caller = c /\ last'.target = t)
          => /\ DOMAIN appraisals' = DOMAIN appraisals
             /\ \A i \in DOMAIN appraisals :
                   \A k \in {"deanMarks", "hodMarks", "directorMarks", "adminDeanMarks",
                             "isMarkDean", "isMarkHOD"} :
                       <<k>> \in DOMAIN last'.req
                       => \/ Get(appraisals'[i].doc, <<"partD", k>>)
                                = Get(appraisals[i].doc, <<"partD", k>>)
                          \/ Get(appraisals'[i].doc, <<"partD", k>>) = Default(<<"partD", k>>)]_vars

\* a Part D update whose payload carried evaluator marks was stored without
\* them
C10_Witness ==
    /\ last.op = "updatePartD"
    /\ last.code = OK
    /\ <<"deanMarks">> \in DOMAIN last.req
    /\ last.req[<<"deanMarks">>] = 5
    /\ <<"isMarkHOD">> \in DOMAIN last.req
    /\ last.req[<<"isMarkHOD">>] = TRUE
    /\ \E i \in DOMAIN appraisals :
          /\ Get(appraisals[i].doc, <<"partD", "selfAwardedMarks">>) = 3
          /\ Get(appraisals[i].doc, <<"partD", "deanMarks">>) = 0
          /\ Get(appraisals[i].doc, <<"partD", "isMarkHOD">>) = FALSE

\* what the lifecycle table allows: the transition, the identity asking and
\* the record the request names
TableAllows(transition, caller, target) ==
    LET i == FindIndex(appraisals, target)
    IN  /\ i # 0
        /\ CASE transition = "submit" ->
                    /\ caller.userId = appraisals[i].userId
                    /\ Status(appraisals[i]) = "DRAFT"
                    /\ Get(appraisals[i].doc, <<"declaration", "isAgreed">>) = TRUE
             [] transition = "verify" ->
                    /\ caller.role \in {"director", "dean", "associate_dean", "hod"}
                    /\ Status(appraisals[i]) = "SUBMITTED"
             [] transition = "approve" ->
                    /\ caller.role \in {"director", "dean"}
                    /\ Status(appraisals[i]) = "VERIFIED"
             [] transition = "delete" ->
                    /\ caller.userId = appraisals[i].userId
                    /\ Status(appraisals[i]) = "DRAFT"

\* the request just completed succeeded exactly if allowed, and one that was
\* not allowed left the collection as it was
DecidedAs(allowed) ==
    /\ (last'.code = OK) <=> allowed
    /\ ~allowed => appraisals' = appraisals

\* C2: for every status, role and ownership, a transition request succeeds
\* exactly when the lifecycle table allows it (submit: owner, Draft,
\* declaration agreed; verify: director/dean/associate_dean/hod, Submitted;
\* approve: director/dean, Verified; delete: owner, Draft); every other
\* request is rejected and leaves the record unchanged.
C2_TransitionsFollowTheTable ==
    [][\A c \in Callers, t \in Targets :
          /\ (last'.op = "submit" /\ last'.caller = c /\ last'.target = t)
                => DecidedAs(TableAllows("submit", c, t))
          /\ (last'.op = "verify" /\ last'.caller = c /\ last'.target = t)
                => DecidedAs(TableAllows("verify", c, t))
          /\ (last'.op = "approve" /\ last'.caller = c /\ last'.target = t)
                => DecidedAs(TableAllows("approve", c, t))
          /\ (last'.op = "delete" /\ last'.caller = c /\ last'.target = t)
                => DecidedAs(TableAllows("delete", c, t))]_vars

\* the owner's delete of a record that went through every transition was
\* refused
C2_Witness ==
    /\ last.op = "delete"
    /\ last.code = BAD_REQUEST
    /\ \E i \in DOMAIN appraisals :
          /\ Status(appraisals[i]) = "APPROVED"
          /\ appraisals[i].role \in {"director", "dean"}

\* C3: of two approve requests that both found the record Verified, exactly
\* one succeeds and the other is rejected with a precondition failure that
\* reports the current status Approved.
C3_OneApproveSucceeds ==
    \A p \in Procs : \A q \in Procs \ {p} :
        (/\ reqs[p].op = "approve" /\ reqs[q].op = "approve"
         /\ reqs[p].stage = "done" /\ reqs[q].stage = "done"
         /\ reqs[p].target = reqs[q].target
         /\ reqs[p].read = "VERIFIED" /\ reqs[q].read = "VERIFIED")
        => \/ /\ reqs[p].code = OK
              /\ reqs[q].code = BAD_REQUEST /\ reqs[q].current = "APPROVED"
           \/ /\ reqs[q].code = OK
              /\ reqs[p].code = BAD_REQUEST /\ reqs[p].current = "APPROVED"

\* C5: once a record's status is not Draft, its count, amount, proof and
\* claimed leaves keep their values, and the record changes only in requests
\* made by evaluator roles.
C5_FacultyLeavesFrozenAfterSubmit ==
    [][\A i \in DOMAIN appraisals : \A j \in DOMAIN appraisals' :
          (appraisals[i].id = appraisals'[j].id /\ Status(appraisals[i]) # "DRAFT")
          => /\ \A p \in Stored(appraisals[i].doc, appraisals'[j].doc) :
                   FacultyLeaf(p) => Get(appraisals'[j].doc, p) = Get(appraisals[i].doc, p)
             /\ appraisals'[j].doc # appraisals[i].doc
                   => /\ last'.op \in {"verify", "approve", "updatePartDEvaluator"}
                      /\ last'.caller.role \in VerifyRoles \cup ApproveRoles
                                                  \cup EvaluatorMarkRoles]_vars

\* the Part D leaves an evaluator mark request of a role is to write, with
\* the values it is to write
RoleLeaves(role, marks) ==
    CASE role = "dean" ->
            {<<<<"partD", "deanMarks">>, marks>>, <<<<"partD", "isMarkDean">>, TRUE>>}
      [] role = "hod" ->
            {<<<<"partD", "hodMarks">>, marks>>, <<<<"partD", "isMarkHOD">>, TRUE>>}
      [] role = "director" -> {<<<<"partD", "directorMarks">>, marks>>}
      [] role = "associate_dean" -> {<<<<"partD", "adminDeanMarks">>, marks>>}
      [] OTHER -> {}

\* C11: a successful evaluator mark request comes from one of the four
\* evaluator roles and writes exactly the leaves of that role (the mark, and
\* for dean and hod the flag as well); the status, every other leaf and every
\* other record stay as they were.
C11_EvaluatorWritesItsOwnLeaf ==
    [][\A c \in EvaluatorCallers, t \in Targets :
          (/\ last'.op = "updatePartDEvaluator"
           /\ last'.caller = c /\ last'.target = t
           /\ last'.code = OK)
          => LET i == FindIndex(appraisals, t)
                 written == RoleLeaves(c.role, last'.req.marks.num)
             IN  /\ c.role \in {"dean", "hod", "director", "associate_dean"}
                 /\ i # 0
                 /\ DOMAIN appraisals' = DOMAIN appraisals
                 /\ \A j \in DOMAIN appraisals :
                       /\ j # i => appraisals'[j] = appraisals[j]
                       /\ [appraisals'[j] EXCEPT !.doc = <<>>] = [appraisals[j] EXCEPT !.doc = <<>>]
                 /\ \A w \in written : Get(appraisals'[i].doc, w[1]) = w[2]
                 /\ \A p \in Stored(appraisals[i].doc, appraisals'[i].doc) :
                       p \notin {w[1] : w \in written}
                       => /\ p \in DOMAIN appraisals[i].doc
                          /\ p \in DOMAIN appraisals'[i].doc
                          /\ appraisals'[i].doc[p] = appraisals[i].doc[p]]_vars

\* a director's mark is stored beside a hod's mark and flag, and the dean's
\* flag is still unset
C11_Witness ==
    /\ last.op = "updatePartDEvaluator" /\ last.code = OK
    /\ \E i \in DOMAIN appraisals :
          /\ Get(appraisals[i].doc, <<"partD", "directorMarks">>) = 1
          /\ Get(appraisals[i].doc, <<"partD", "hodMarks">>) = 1
          /\ Get(appraisals[i].doc, <<"partD", "isMarkHOD">>) = TRUE
          /\ Get(appraisals[i].doc, <<"partD", "isMarkDean">>) = FALSE
          /\ Get(appraisals[i].doc, <<"partD", "selfAwardedMarks">>) = 3
          /\ Status(appraisals[i]) = "SUBMITTED"

\* C12: an evaluator mark request made while the record is not Submitted, or
\* whose marks value is not a number of at least zero, is rejected, and a
\* rejected request leaves every record as it was.
C12_RejectedEvaluatorMarkWritesNothing ==
    [][\A c \in EvaluatorCallers, t \in Targets :
          (last'.op = "updatePartDEvaluator" /\ last'.caller = c /\ last'.target = t)
          => LET i == FindIndex(appraisals, t)
                 marks == last'.req.marks
             IN  /\ (i # 0 /\ Status(appraisals[i]) # "SUBMITTED") => last'.code # OK
                 /\ ~(IsNumber(marks) /\ marks.num >= 0) => last'.code # OK
                 /\ last'.code # OK => appraisals' = appraisals]_vars

\* a request with a negative mark was rejected on a Submitted record that
\* already holds the dean's mark and flag
C12_Witness ==
    /\ last.op = "updatePartDEvaluator" /\ last.code = BAD_REQUEST
    /\ last.req.marks = Num(0 - 1)
    /\ \E i \in DOMAIN appraisals :
          /\ Status(appraisals[i]) = "SUBMITTED"
          /\ Get(appraisals[i].doc, <<"partD", "deanMarks">>) = 1
          /\ Get(appraisals[i].doc, <<"partD", "isMarkDean">>) = TRUE

\* C13: a delete request leaves every record that is Submitted, Verified or
\* Approved in the store, and is answered as a failed precondition when the
\* owner's record is one of them; when the owner holds a Draft record, the
\* owner's delete request succeeds and no record is found for the owner
\* afterwards.
C13_DeleteOnlyDrafts ==
    [][\A c \in ApiCallers, t \in Targets :
          (last'.op = "delete" /\ last'.caller = c /\ last'.target = t)
          => LET mine == {i \in DOMAIN appraisals : appraisals[i].userId = t}
             IN  /\ \A i \in DOMAIN appraisals :
                       Status(appraisals[i]) # "DRAFT"
                       => \E j \in DOMAIN appraisals' : appraisals'[j] = appraisals[i]
                 /\ (/\ c.userId = t
                     /\ mine # {}
                     /\ \A i \in mine : Status(appraisals[i]) # "DRAFT")
                    => last'.code = BAD_REQUEST /\ appraisals' = appraisals
                 /\ (c.userId = t /\ \E i \in mine : Status(appraisals[i]) = "DRAFT")
                    => last'.code = OK /\ FindIndex(appraisals', t) = 0]_vars

\* a record of the pair (userId, appraisalYear) is stored
HasRecord(userId, appraisalYear) ==
    \E i \in DOMAIN appraisals :
        appraisals[i].userId = userId /\ appraisals[i].appraisalYear = appraisalYear

\* C14: in every state the store holds at most one record for a pair
\* (userId, appraisalYear), also when create requests of one user run
\* together; a create request that comes to its lookup or to its insert while
\* a record of its pair exists is rejected and leaves the records as they
\* were.
C14_OneRecordPerUserAndYear ==
    /\ [](\A i \in DOMAIN appraisals : \A j \in DOMAIN appraisals :
              (/\ appraisals[i].userId = appraisals[j].userId
               /\ appraisals[i].appraisalYear = appraisals[j].appraisalYear) => i = j)
    /\ [][\A p \in Procs :
                (/\ reqs[p].stage \in {"find", "insert"}
                 /\ reqs'[p].stage = "done"
                 /\ HasRecord(reqs[p].caller.userId, reqs'[p].appraisalYear))
                => reqs'[p].code \in {CONFLICT, INTERNAL_SERVER_ERROR}
                   /\ appraisals' = appraisals]_vars

\* two create requests of one user both passed the lookup; one inserted the
\* record and the other was refused by the index
C14_Witness ==
    \E p \in Procs : \E q \in Procs \ {p} :
        /\ reqs[p].op = "create" /\ reqs[q].op = "create"
        /\ reqs[p].stage = "done" /\ reqs[q].stage = "done"
        /\ reqs[p].caller = reqs[q].caller
        /\ reqs[p].appraisalYear = reqs[q].appraisalYear
        /\ reqs[p].code = CREATED
        /\ reqs[q].code = INTERNAL_SERVER_ERROR
        /\ HasRecord(reqs[p].caller.userId, reqs[p].appraisalYear)

\* the smaller of two numbers
Min(a, b) == IF a < b THEN a ELSE b

\* C15: after a successful committee request that lists k >= 1 verifiers for
\* a department with a roster of n faculty, the i-th verifier of the request's
\* list (i from 0) has the row whose faculties are the roster's members from
\* i*p up to min((i+1)*p, n), where p = ceil(n/k).
C15_VerifierGetsItsSlice ==
    [][(/\ last'.op = "rebuild" /\ last'.code = OK
        /\ Len(last'.req.committee_ids) >= 1)
       => LET department == last'.req.department
              committee_ids == last'.req.committee_ids
              roster == departmentFaculty(users, department)
              n == Len(roster)
              k == Len(committee_ids)
              p == IF n % k = 0 THEN n \div k ELSE n \div k + 1
          IN  \A i \in 0 .. k - 1 :
                 \E r \in DOMAIN teams' :
                    /\ teams'[r].userId = committee_ids[i + 1]
                    /\ teams'[r].department = department
                    /\ teams'[r].faculties = SubSeq(roster, i * p + 1, Min((i + 1) * p, n))]_vars

\* C16: a committee request that names an id of no user, or a verifier of the
\* department it is for, is rejected, and a rejected request leaves the
\* assignment rows exactly as they were.
C16_RejectedRebuildWritesNothing ==
    [][last'.op = "rebuild"
       => LET body == last'.req
              listed == IF "committee_ids" \in DOMAIN body
                        THEN Range(body.committee_ids) ELSE {}
          IN  /\ (/\ body.department # ""
                  /\ \E v \in listed :
                        \/ v \notin DOMAIN users
                        \/ users[v].department = body.department)
                 => last'.code # OK
              /\ last'.code # OK => teams' = last'.before]_vars

\* a request naming the head of the department was rejected while the
\* department's committee holds a verifier the request does not list
C16_Witness ==
    /\ last.op = "rebuild" /\ last.code = BAD_REQUEST /\ last.err = "same_department"
    /\ \E r \in DOMAIN teams :
          /\ teams[r].department = last.req.department
          /\ teams[r].userId \notin Range(last.req.committee_ids)
          /\ teams[r].faculties # <<>>

\* C17: no assignment row has a verifier whose own department is the
\* department of the row.
C17_VerifiersAreOfOtherDepartments ==
    \A r \in DOMAIN teams :
        teams[r].userId \in DOMAIN users
        => users[teams[r].userId].department # teams[r].department

\* the rows of a department's committee
CommitteeRows(department) == {r \in DOMAIN teams : teams[r].department = department}

\* the active users of a department whose role is faculty
CurrentRoster(department) ==
    {u \in DOMAIN users : /\ users[u].department = department
                          /\ users[u].role = "faculty"
                          /\ users[u].status = "active"}

\* C18: when a department has a committee, the faculty of its rows are
\* pairwise disjoint and together are exactly the department's current
\* roster.
C18_CommitteePartitionsTheRoster ==
    \A department \in DEPARTMENT :
        (Quiet /\ CommitteeRows(department) # {})
        => /\ \A r \in CommitteeRows(department) : \A q \in CommitteeRows(department) :
                 r # q => Range(teams[r].faculties) \cap Range(teams[q].faculties) = {}
           /\ UNION {Range(teams[r].faculties) : r \in CommitteeRows(department)}
                 = CurrentRoster(department)

\* the leaves of a section of a record are the payload of a section update
HoldsPayload(doc, section, body) ==
    /\ \A k \in DOMAIN body : Get(doc, <<section>> \o k) = body[k]
    /\ \A q \in DOMAIN doc : q[1] = section => Tail(q) \in DOMAIN body

\* C19: when the owner's update of Part A and the owner's update of Part C of
\* one Draft record were in flight together and both have been answered 200,
\* no other request having been made, the record holds the payload of both.
C19_BothSectionUpdatesKept ==
    \A p \in Procs : \A q \in Procs \ {p} :
        (/\ reqs[p].op = "updatePartA" /\ reqs[q].op = "updatePartC"
         /\ reqs[p].stage = "done" /\ reqs[q].stage = "done"
         /\ reqs[p].code = OK /\ reqs[q].code = OK
         /\ reqs[p].target = reqs[q].target
         /\ \A r \in Procs \ {p, q} : reqs[r].stage = "idle")
        => LET i == FindIndex(appraisals, reqs[p].target)
           IN  /\ i # 0
               /\ HoldsPayload(appraisals[i].doc, "partA", reqs[p].req)
               /\ HoldsPayload(appraisals[i].doc, "partC", reqs[q].req)

\* both updates read the record before either wrote, and both have written
C19_Witness ==
    \E p \in Procs : \E q \in Procs \ {p} :
        /\ reqs[p].op = "updatePartA" /\ reqs[q].op = "updatePartC"
        /\ "partC" \notin reqs[p].seen /\ "partA" \notin reqs[q].seen
        /\ reqs[p].stage = "done" /\ reqs[q].stage = "done"
        /\ reqs[p].code = OK /\ reqs[q].code = OK
        /\ \E i \in DOMAIN appraisals :
              /\ Get(appraisals[i].doc, <<"partA", "totalMarks">>) = 3
              /\ Get(appraisals[i].doc, <<"partC", "verifiedMarks">>) = 3
              /\ Status(appraisals[i]) = "DRAFT"

\* C20: a record whose status is Approved stays in the store with every field
\* as it is, whatever request completes, including a request that read the
\* record before it was approved.
C20_ApprovedRecordsNeverChange ==
    [][\A i \in DOMAIN appraisals :
          Status(appraisals[i]) = "APPROVED"
          => \E j \in DOMAIN appraisals' : appraisals'[j] = appraisals[i]]_vars


\* the rows of a department in a collection of teams
DepartmentRows(coll, department) ==
    {coll[i] : i \in {j \in DOMAIN coll : coll[j].department = department}}

\* the team of a verifier is found and saved with its new faculties, or a
\* new team is saved
saveTeam(coll, userId, department, faculties) ==
    LET i == FindTeam(coll, userId, department)
    IN  IF i # 0 THEN [coll EXCEPT ![i].faculties = faculties]
        ELSE Append(coll, [userId |-> userId, department |-> department,
                           faculties |-> faculties])

\* the validation of a new VerificationTeam document: department is one of
\* the enum
teamValidates(coll, userId, department) ==
    FindTeam(coll, userId, department) # 0 \/ department \in DEPARTMENT

\* the loop of createVerificationCommitteeByDept from the verifier at index i
\* on: the collection it leaves, and whether a save threw
RECURSIVE distribute(_, _, _, _, _)
distribute(coll, verifiers, roster, department, i) ==
    IF i >= Len(verifiers) THEN [teams |-> coll, thrown |-> FALSE]
    ELSE IF ~teamValidates(coll, verifiers[i + 1], department)
    THEN [teams |-> coll, thrown |-> TRUE]
    ELSE distribute(saveTeam(coll, verifiers[i + 1], department,
                             assignedFaculties(roster, i,
                                               Ceil(Len(roster), Len(verifiers)))),
                    verifiers, roster, department, i + 1)

\* the teams a rebuild that ran alone and without a failure leaves
Rebuilt(coll, body) ==
    LET verifiers == findUsersIn(users, body.committee_ids)
        afterDeleted == IF Len(body.deleted_verifiers) > 0
                        THEN deleteTeamsIn(coll, body.department,
                                           Range(findUsersIn(users, body.deleted_verifiers)))
                        ELSE coll
        afterPurge == deleteTeamsNotIn(afterDeleted, body.department, Range(verifiers))
    IN  distribute(afterPurge, verifiers, departmentFaculty(users, body.department),
                   body.department, 0).teams

\* C21: a rebuild that failed at one of its store steps leaves the rows of
\* the department either as the rows it found or as the fully rebuilt
\* partition, never a mixture of the two.
C21_FailedRebuildIsAllOrNothing ==
    \A p \in Procs :
        (reqs[p].stage = "done" /\ reqs[p].op = "rebuild"
            /\ reqs[p].code = INTERNAL_SERVER_ERROR)
        => \/ DepartmentRows(teams, reqs[p].req.department)
                 = DepartmentRows(reqs[p].before, reqs[p].req.department)
           \/ DepartmentRows(teams, reqs[p].req.department)
                 = DepartmentRows(Rebuilt(reqs[p].before, reqs[p].req), reqs[p].req.department)


\* the place of a status in the lifecycle
Rank(status) ==
    CASE status = "DRAFT" -> 0
      [] status = "SUBMITTED" -> 1
      [] status = "VERIFIED" -> 2
      [] status = "APPROVED" -> 3

\* C22: with lifecycle requests on one record in flight together, no step
\* moves the stored status of a record backward: a submit or a verify that
\* read the status before another request advanced it does not write
\* Submitted or Verified over the later status.
C22_StatusNeverMovesBackward ==
    [][\A i \in DOMAIN appraisals : \A j \in DOMAIN appraisals' :
          appraisals[i].id = appraisals'[j].id
          => Rank(Status(appraisals[i])) <= Rank(Status(appraisals'[j]))]_vars

\* C23: a section update of the owner that overlaps the owner's submit is
\* never applied to a record that is already Submitted: the write of an
\* updatePartD does not land on a record whose status is Submitted or later.
C23_SectionWriteNeverLandsOnSubmitted ==
    [][\A p \in Procs :
          (reqs[p].stage = "apply" /\ reqs[p].op = "updatePartD"
              /\ reqs'[p].stage = "done" /\ reqs'[p].code = OK)
          => ReadStatus(reqs[p].target) \notin {"SUBMITTED", "VERIFIED", "APPROVED"}]_vars

\* C24: no step removes a record whose status is Submitted, Verified or
\* Approved, also when the owner's delete and submit are in flight together.
C24_OnlyDraftsAreRemoved ==
    [][\A i \in DOMAIN appraisals :
          Status(appraisals[i]) \in {"SUBMITTED", "VERIFIED", "APPROVED"}
          => \E j \in DOMAIN appraisals' : appraisals'[j].id = appraisals[i].id]_vars


\* the leaves of a verification payload that hold a number and name a mark
\* of the record: a metric of Part B, whose verified leaf is meant, or a
\* total or mark named by its own path
GivenMarks(body) ==
    {q \in DOMAIN Payload(body) :
        /\ IsNumber(Payload(body)[q])
        /\ \/ Append(q, "verified") \in VerifiedLeaves
           \/ q \in MarkLeaves /\ q[Len(q)] # "verified"}

\* the marks a verification payload gives are those a document holds
HoldsMarks(doc, body) ==
    \A q \in GivenMarks(body) : Get(doc, MarkedLeaf(q)) = Payload(body)[q].num

\* C25: verify applies its marks and the status change in one store step:
\* the step that takes a record from Submitted to Verified is the write of
\* a verify and leaves the marks of its payload in the record, and no step
\* changes a mark of a record and leaves it short of Verified.
C25_VerifyWritesMarksWithTheStatus ==
    [][\A i \in DOMAIN appraisals : \A j \in DOMAIN appraisals' :
          appraisals[i].id = appraisals'[j].id
          => /\ (Status(appraisals[i]) = "SUBMITTED" /\ Status(appraisals'[j]) = "VERIFIED")
                => \E p \in Procs :
                      /\ reqs[p].stage = "apply" /\ reqs[p].op = "verify"
                      /\ reqs'[p].stage = "done"
                      /\ HoldsMarks(appraisals'[j].doc, reqs[p].req)
             /\ (\E q \in MarkLeaves :
                    Get(appraisals'[j].doc, q) # Get(appraisals[i].doc, q))
                => Status(appraisals'[j]) = "VERIFIED"]_vars

\* a verify with marks in its payload has written: the record is Verified
\* and holds them, while another verify that read it Submitted still waits
C25_Witness ==
    \E p \in Procs : \E r \in Procs :
        /\ reqs[p].stage = "done" /\ reqs[p].op = "verify" /\ reqs[p].code = OK
        /\ <<"partB", "papers", "sci">> \in GivenMarks(reqs[p].req)
        /\ reqs[r].stage = "apply" /\ reqs[r].op = "verify"
        /\ \E i \in DOMAIN appraisals :
              /\ appraisals[i].userId = reqs[p].target
              /\ Status(appraisals[i]) = "VERIFIED"
              /\ Get(appraisals[i].doc, <<"partB", "papers", "sci", "verified">>) = MaxMark


\* C26: a verify of a Submitted record does not fail on what its payload
\* holds: it is not rejected, its write is answered 200 and leaves the record
\* Verified with every numeric leaf of the known schema applied, and the
\* leaves that are not numbers or not of the schema change no mark; so too
\* for an absent or an empty payload.
C26_VerifyToleratesAnyPayload ==
    [][\A p \in Procs :
          /\ (reqs[p].stage = "idle" /\ reqs'[p].op = "verify"
                 /\ reqs'[p].read = "SUBMITTED")
             => reqs'[p].stage = "apply"
          /\ (reqs[p].stage = "apply" /\ reqs[p].op = "verify" /\ reqs'[p].stage = "done")
             => /\ reqs'[p].code = OK
                /\ \A i \in DOMAIN appraisals : \A j \in DOMAIN appraisals' :
                      (appraisals[i].id = appraisals'[j].id
                          /\ i = FindIndex(appraisals, reqs[p].target))
                      => /\ Status(appraisals'[j]) = "VERIFIED"
                         /\ HoldsMarks(appraisals'[j].doc, reqs[p].req)
                         /\ \A q \in MarkLeaves \ {MarkedLeaf(g) : g \in GivenMarks(reqs[p].req)} :
                               Get(appraisals'[j].doc, q) = Get(appraisals[i].doc, q)]_vars

\* a verify whose payload held a total that is not a number, a section that
\* is not an object and one numeric mark was answered 200: the record is
\* Verified, holds the mark and no total
C26_Witness ==
    \E p \in Procs :
        /\ reqs[p].stage = "done" /\ reqs[p].op = "verify" /\ reqs[p].code = OK
        /\ "verificationData" \in DOMAIN reqs[p].req
        /\ <<"partB", "totalVerified">> \in DOMAIN reqs[p].req.verificationData
        /\ ~IsNumber(reqs[p].req.verificationData[<<"partB", "totalVerified">>])
        /\ \E i \in DOMAIN appraisals :
              /\ appraisals[i].userId = reqs[p].target
              /\ Status(appraisals[i]) = "VERIFIED"
              /\ Get(appraisals[i].doc, <<"partC", "verifiedMarks">>) = MaxMark
              /\ <<"partB", "totalVerified">> \notin DOMAIN appraisals[i].doc


\* the leaves of Part D a faculty member assigns: the schema's leaves
\* without the evaluators' marks and flags and without the rollup
FacultyWritableD ==
    {"portfolioType", "instituteLevelPortfolio", "departmentLevelPortfolio",
     "selfAwardedMarks", "isAdministrativeRole", "administrativeRole",
     "adminSelfAwardedMarks"}

\* the keys of a section a document holds
SectionKeys(doc, section) == {q[2] : q \in {r \in DOMAIN doc : r[1] = section}}

\* C27: whatever mapping the owner sends, the keys a Part D update persists
\* are faculty-writable leaves of Part D: the six evaluator-only keys,
\* unknown keys and rollups such as totalMarks are dropped.
C27_PartDPersistsFacultyLeavesOnly ==
    [][\A c \in ApiCallers, t \in Targets :
          (last'.op = "updatePartD" /\ last'.code = OK /\ last'.caller = c /\ last'.target = t)
          => SectionKeys(appraisals'[FindIndex(appraisals', t)].doc, "partD")
                \subseteq FacultyWritableD]_vars


\* the number of faculty in the row of a verifier, -1 when it has no row
SliceSize(v, department) ==
    IF FindTeam(teams, v, department) = 0 THEN -1
    ELSE Len(teams[FindTeam(teams, v, department)].faculties)

\* the users of a department whose role is faculty
FacultyOf(department) ==
    {u \in DOMAIN users : users[u].department = department /\ users[u].role = "faculty"}

\* the least p with p * k >= n, for k >= 1
PerVerifier(n, k) == CHOOSE p \in 0 .. n : p * k >= n /\ (p = 0 \/ (p - 1) * k < n)

\* the verifiers of the completed rebuild in the order of the walk
Walk == findUsersIn(users, last.req.committee_ids)

\* C28 as stated: after a rebuild every verifier but the last of the walk
\* holds exactly ceil(n/k) faculty, the last holds at most that, and nobody
\* holds more.
C28_AllButLastHoldCeil ==
    (last.op = "rebuild" /\ last.code = OK /\ Len(Walk) >= 1)
    => LET department == last.req.department
           k == Len(Walk)
           p == PerVerifier(Cardinality(FacultyOf(department)), k)
       IN  /\ \A i \in 1 .. k - 1 : SliceSize(Walk[i], department) = p
           /\ SliceSize(Walk[k], department) <= p
           /\ \A i \in 1 .. k : SliceSize(Walk[i], department) <= p

\* C28, amended: after a rebuild over n faculty and k >= 1 verifiers, the
\* verifier at place i of the walk (from 0) holds min(p, max(0, n - i * p))
\* faculty with p = ceil(n/k): nobody holds more than p, the rows together
\* hold the n faculty, and once a verifier holds fewer than p every later
\* one holds none.
C28_SlicesFillInWalkOrder ==
    (last.op = "rebuild" /\ last.code = OK /\ Len(Walk) >= 1)
    => LET department == last.req.department
           n == Cardinality(FacultyOf(department))
           k == Len(Walk)
           p == PerVerifier(n, k)
       IN  /\ \A i \in 1 .. k :
                 SliceSize(Walk[i], department)
                    = Min(p, IF n - (i - 1) * p > 0 THEN n - (i - 1) * p ELSE 0)
           /\ UNION {Range(teams[r].faculties) : r \in CommitteeRows(department)}
                 = FacultyOf(department)

\* a rebuild with three verifiers over four faculty: two hold two each and
\* the last holds none
C28_Witness ==
    /\ last.op = "rebuild" /\ last.code = OK
    /\ Len(Walk) = 3
    /\ Cardinality(FacultyOf(last.req.department)) = 4
    /\ SliceSize(Walk[1], last.req.department) = 2
    /\ SliceSize(Walk[2], last.req.department) = 2
    /\ SliceSize(Walk[3], last.req.department) = 0


\* C29: after a successful rebuild the verifiers that have a row for the
\* department are exactly those listed in committee_ids, one row each: the
\* rows of removed verifiers and the stale rows of verifiers that are not
\* listed are gone, and each listed verifier's row holds the slice computed
\* for it and nothing of what it held before.
C29_RowsAreExactlyTheCommittee ==
    (last.op = "rebuild" /\ last.code = OK)
    => LET department == last.req.department
           roster == departmentFaculty(users, department)
           k == Len(Walk)
       IN  /\ {teams[r].userId : r \in CommitteeRows(department)}
                 = Range(last.req.committee_ids)
           /\ Cardinality(CommitteeRows(department)) = k
           /\ \A v \in Range(last.req.deleted_verifiers) \ Range(last.req.committee_ids) :
                 FindTeam(teams, v, department) = 0
           /\ \A i \in 1 .. k :
                 teams[FindTeam(teams, Walk[i], department)].faculties
                    = SubSeq(roster, (i - 1) * PerVerifier(Len(roster), k) + 1,
                             Min(i * PerVerifier(Len(roster), k), Len(roster)))

\* a rebuild listed v1 and v2 after one that listed v2 alone: the row of v2,
\* the older of the two, holds its new slice of two and not the five it held
C29_Witness ==
    /\ last.op = "rebuild" /\ last.code = OK
    /\ last.req.department = "computer"
    /\ teams = <<[userId |-> "v2", department |-> "computer", faculties |-> <<"f4", "f5">>],
                 [userId |-> "v1", department |-> "computer",
                  faculties |-> <<"f1", "f2", "f3">>]>>

\* C30: a rebuild for a department that has no faculty, listing at least
\* one verifier, all of them known users of other departments, succeeds and
\* leaves each listed verifier a row with no faculty.
C30_EmptyRosterGivesEmptyRows ==
    (/\ last.op = "rebuild"
     /\ "committee_ids" \in DOMAIN last.req
     /\ last.req.department \in DEPARTMENT
     /\ FacultyOf(last.req.department) = {}
     /\ Len(last.req.committee_ids) >= 1
     /\ Len(Walk) = Len(last.req.committee_ids)
     /\ \A v \in Range(last.req.committee_ids) :
           v \in DOMAIN users /\ users[v].department # last.req.department)
    => /\ last.code = OK
       /\ \A v \in Range(last.req.committee_ids) :
             SliceSize(v, last.req.department) = 0

\* a rebuild over an empty roster with two verifiers was answered 200 and
\* both hold a row without faculty
C30_Witness ==
    /\ last.op = "rebuild" /\ last.code = OK
    /\ FacultyOf(last.req.department) = {}
    /\ Len(last.req.committee_ids) = 2
    /\ \A v \in Range(last.req.committee_ids) : SliceSize(v, last.req.department) = 0


\* the verifiers a reassign request names, as the handler reads the keys
NamedVerifiers(body) == {cleanId(body.assignments[e][1]) : e \in DOMAIN body.assignments}

\* C31: a reassign changes only the rows of the verifiers its mapping names
\* for its department: every other row, of the department or of another,
\* is the same before and after, and no row of another verifier appears.
C31_ReassignTouchesNamedRowsOnly ==
    [][(last'.op = "reassign" /\ "assignments" \in DOMAIN last'.req)
       => /\ \A r \in DOMAIN last'.before :
                 ~(last'.before[r].department = last'.req.department
                      /\ last'.before[r].userId \in NamedVerifiers(last'.req))
                 => r \in DOMAIN teams' /\ teams'[r] = last'.before[r]
          /\ \A r \in DOMAIN teams' :
                 \/ r \in DOMAIN last'.before /\ teams'[r] = last'.before[r]
                 \/ /\ teams'[r].department = last'.req.department
                    /\ teams'[r].userId \in NamedVerifiers(last'.req)]_vars

\* a reassign that named v1 alone gave it f1 and f2; the row of v2, from
\* the rebuild before, still holds f4 and f5
C31_Witness ==
    /\ last.op = "reassign" /\ last.code = OK
    /\ "assignments" \in DOMAIN last.req
    /\ NamedVerifiers(last.req) = {"v1"}
    /\ \E r \in DOMAIN teams : \E q \in DOMAIN teams :
          /\ teams[r] = [userId |-> "v1", department |-> "computer",
                         faculties |-> <<"f1", "f2">>]
          /\ teams[q] = [userId |-> "v2", department |-> "computer",
                         faculties |-> <<"f4", "f5">>]


\* C32: the roster a rebuild partitions holds only the department's active
\* users of role faculty: after a successful rebuild no row of the
\* department holds a user that deleteUser had made inactive.
C32_RebuildAssignsActiveFacultyOnly ==
    (last.op = "rebuild" /\ last.code = OK)
    => \A r \in CommitteeRows(last.req.department) :
          \A f \in Range(teams[r].faculties) :
             /\ users[f].status = "active"
             /\ users[f].role = "faculty"
             /\ users[f].department = last.req.department


\* C33: after the create, no section update, declaration update, submit,
\* evaluator mark, verify or approve changes the userId, appraisalYear, role
\* or designation of a record: a record that a step keeps has the identity
\* fields it had
C33_IdentityFieldsAreFixed ==
    [][\A i \in DOMAIN appraisals : \A j \in DOMAIN appraisals' :
          appraisals'[j].id = appraisals[i].id =>
              /\ appraisals'[j].userId = appraisals[i].userId
              /\ appraisals'[j].appraisalYear = appraisals[i].appraisalYear
              /\ appraisals'[j].role = appraisals[i].role
              /\ appraisals'[j].designation = appraisals[i].designation]_vars

\* an approved record that took a part A body and a verification payload
\* naming the identity fields, and has the identity of its create
C33_Witness ==
    \E i \in DOMAIN appraisals :
        /\ Status(appraisals[i]) = "APPROVED"
        /\ Get(appraisals[i].doc, <<"partA", "totalMarks">>) = 3
        /\ Get(appraisals[i].doc, <<"partC", "verifiedMarks">>) = MaxMark
        /\ appraisals[i].userId = "u1"
        /\ appraisals[i].role = "faculty"
        /\ appraisals[i].designation = "Professor"


\* C34: an operation acts on one record, the one of a (userId,
\* appraisalYear) key: the record a write changes or removes is the record
\* whose status the handler checked, and every other record, the one of the
\* other year among them, is left as it was
C34_CheckedRecordIsWritten ==
    [][\A p \in Procs :
          (reqs[p].stage = "apply" /\ reqs'[p].stage = "done") =>
              \A i \in DOMAIN appraisals :
                  (~\E j \in DOMAIN appraisals' : appraisals'[j] = appraisals[i])
                      => appraisals[i].id = reqs[p].found]_vars


\* C35: a create that is rejected because a record of the same user and
\* year is in the store is answered Conflict, also when the record was
\* inserted by another create after this one's lookup and the insert is
\* stopped by the unique index
C35_DuplicateCreateIsConflict ==
    \A p \in Procs :
        (/\ reqs[p].stage = "done"
         /\ reqs[p].op = "create"
         /\ reqs[p].code # CREATED
         /\ \E i \in DOMAIN appraisals :
               /\ appraisals[i].userId = reqs[p].caller.userId
               /\ appraisals[i].appraisalYear = reqs[p].appraisalYear)
            => reqs[p].code = CONFLICT


\* the record of u1 holds the same value, or none, at path q before and
\* after the step
KeepsPath(q) ==
    \A i \in DOMAIN appraisals, j \in DOMAIN appraisals' :
        appraisals'[j].id = appraisals[i].id =>
            /\ (q \in DOMAIN appraisals'[j].doc) = (q \in DOMAIN appraisals[i].doc)
            /\ Get(appraisals'[j].doc, q) = Get(appraisals[i].doc, q)

\* the record of u1 holds the marks of the request at the path, and its flag
EntersMarks(body, marks, flag) ==
    \E j \in DOMAIN appraisals' :
        /\ appraisals'[j].userId = "u1"
        /\ <<"partD", marks>> \in DOMAIN appraisals'[j].doc
        /\ appraisals'[j].doc[<<"partD", marks>>] = body.marks.num
        /\ <<"partD", flag>> \in DOMAIN appraisals'[j].doc
        /\ appraisals'[j].doc[<<"partD", flag>>] = TRUE

\* C36: the Part D marks of a dean and of a head of department on one
\* submitted record, in flight together: each request succeeds, its write
\* enters its own marks and flag and keeps the marks and the flag of the
\* other evaluator, whatever the order of the reads and the writes
C36_EvaluatorWritesKeepEachOther ==
    [][\A p \in Procs :
          (reqs[p].stage = "apply" /\ reqs'[p].stage = "done") =>
              /\ reqs'[p].code = OK
              /\ <<"partD", "deanMarks">> \in DOMAIN reqs[p].write.sets =>
                    /\ EntersMarks(reqs[p].req, "deanMarks", "isMarkDean")
                    /\ KeepsPath(<<"partD", "hodMarks">>)
                    /\ KeepsPath(<<"partD", "isMarkHOD">>)
              /\ <<"partD", "hodMarks">> \in DOMAIN reqs[p].write.sets =>
                    /\ EntersMarks(reqs[p].req, "hodMarks", "isMarkHOD")
                    /\ KeepsPath(<<"partD", "deanMarks">>)
                    /\ KeepsPath(<<"partD", "isMarkDean">>)]_vars

\* a dean's and a head of department's request, both read before either
\* wrote, are both answered 200, and the record holds both marks and both
\* flags
C36_Witness ==
    \E p \in Procs, q \in Procs, i \in DOMAIN appraisals :
        /\ reqs[p].stage = "done" /\ reqs[p].code = OK
        /\ reqs[q].stage = "done" /\ reqs[q].code = OK
        /\ "partD" \notin reqs[p].seen /\ "partD" \notin reqs[q].seen
        /\ <<"partD", "deanMarks">> \in DOMAIN reqs[p].write.sets
        /\ <<"partD", "hodMarks">> \in DOMAIN reqs[q].write.sets
        /\ reqs[p].req.marks.num # reqs[q].req.marks.num
        /\ Get(appraisals[i].doc, <<"partD", "deanMarks">>) = reqs[p].req.marks.num
        /\ Get(appraisals[i].doc, <<"partD", "hodMarks">>) = reqs[q].req.marks.num
        /\ Get(appraisals[i].doc, <<"partD", "isMarkDean">>) = TRUE
        /\ Get(appraisals[i].doc, <<"partD", "isMarkHOD">>) = TRUE


\* C37: a record that is Submitted, Verified or Approved holds
\* declaration.isAgreed = true and a signatureDate, and a record that was
\* never submitted holds no signatureDate, also when updateDeclaration and
\* submit of the record overlap
C37_SubmittedRecordsAreAgreed ==
    \A i \in DOMAIN appraisals :
        IF Status(appraisals[i]) \in {"SUBMITTED", "VERIFIED", "APPROVED"}
        THEN /\ Get(appraisals[i].doc, <<"declaration", "isAgreed">>) = TRUE
             /\ <<"declaration", "signatureDate">> \in DOMAIN appraisals[i].doc
        ELSE <<"declaration", "signatureDate">> \notin DOMAIN appraisals[i].doc


\* the step is the answered evaluator-mark request of a caller of the role
EntersAs(role) ==
    /\ last'.op = "updatePartDEvaluator"
    /\ last'.code = OK
    /\ last'.caller.role = role

\* the flag of a record is raised by the step: it is true after it, on a
\* record that is new or had it false or unset
Raised(flag) ==
    \E j \in DOMAIN appraisals' :
        /\ Get(appraisals'[j].doc, <<"partD", flag>>) = TRUE
        /\ \A i \in DOMAIN appraisals :
              appraisals[i].id = appraisals'[j].id =>
                  Get(appraisals[i].doc, <<"partD", flag>>) # TRUE

\* C38: partD.isMarkDean is true only if a dean has entered marks on the
\* record through the evaluator route, and partD.isMarkHOD only if a head
\* of department has: the only step that raises a flag is the answered
\* evaluator-mark request of that role, so no request of the owner sets one
C38_FlagsAreRaisedByTheirEvaluator ==
    [][/\ Raised("isMarkDean") => EntersAs("dean")
       /\ Raised("isMarkHOD") => EntersAs("hod")]_vars

\* the dean's evaluator-mark request has just been answered 200 on a record
\* the head of department had entered marks on: both flags are true
C38_Witness ==
    /\ last.op = "updatePartDEvaluator" /\ last.code = OK /\ last.caller.role = "dean"
    /\ \E i \in DOMAIN appraisals :
          /\ appraisals[i].userId = last.target
          /\ Get(appraisals[i].doc, <<"partD", "isMarkDean">>) = TRUE
          /\ Get(appraisals[i].doc, <<"partD", "isMarkHOD">>) = TRUE
          /\ <<"partD", "hodMarks">> \in DOMAIN appraisals[i].doc

\* C39: the assignment store holds at most one row per verifier and
\* department, also after rebuilds or reassigns of one department ran
\* together
C39_OneRowPerVerifierAndDepartment ==
    \A i \in DOMAIN teams, j \in DOMAIN teams :
        (teams[i].userId = teams[j].userId /\ teams[i].department = teams[j].department)
            => i = j

====
